---- MODULE Spec2Model ----
(***************************************************************************)
(* State-machine model of trax/supervised/training.py: the training Loop   *)
(* (construction, run, save_checkpoint, load_checkpoint), the checkpoint   *)
(* file protocol of pickle_to_file, the default scheduling predicate and    *)
(* EvalTask construction.                                                   *)
(*                                                                          *)
(* Every host of a computation runs its own Loop; the hosts share one       *)
(* file system.  A Loop is a record (the fields of `self`), the position   *)
(* of the host's control flow is kept in ctl, and obs holds history        *)
(* variables that only the properties read.                                 *)
(***************************************************************************)
EXTENDS Integers, Sequences, FiniteSets, TLC

-----------------------------------------------------------------------------
(* Bounds of the model.                                                     *)

\* Largest number of hosts sharing the output directory.
MaxHosts == 2
\* Largest number of TrainTasks handed to a Loop.
MaxTasks == 2
\* Largest value of Loop.step explored.
MaxStep == 3
\* Largest n_steps handed to one run call.
MaxRun == 2
\* Largest n_steps_per_checkpoint of a task.
MaxPeriod == 2
\* Number of write calls that one pickle.dump of a checkpoint takes.
NChunks == 2
\* Largest step number handed to the scheduling predicate on its own.
MaxStepN == 12
\* Largest period handed to the scheduling predicate on its own.
MaxPeriodN == 5
\* Largest number of metrics / metric names of an EvalTask.
MaxMetrics == 3
\* Largest n_eval_batches of an EvalTask.
MaxEvalBatches == 2
\* Largest number of batches left in a finite data source.
MaxBatches == 2
\* Largest value a metric takes on one batch.
MaxValue == 2
\* The bits of a floating-point mantissa.
MantissaBits == 3
\* The most devices one host has.
MaxDevices == 2
\* The most PRNG keys one Loop draws.
MaxDraws == 5

\* TrainTask's default n_steps_per_checkpoint.
n_steps_per_checkpoint_default == 100

Hosts == 0 .. (MaxHosts - 1)

\* Python's None.
None == "None"

-----------------------------------------------------------------------------
(* The file system: a path is <<directory, file name>>, a file is the      *)
(* sequence of chunks written to it so far.                                *)

CkptName == "model.pkl.gz"
OtherName == "other.pkl.gz"
\* config_path = os.path.join(self._output_dir, 'config.gin')
ConfigName == "config.gin"

\* os.path.join(directory, filename)
join(directory, filename) == <<directory, filename>>

\* A buggy variant of tmp_file_path: pickling straight into file_path.
tmp_file_path_in_place(file_path) == file_path

\* tmp_file_path = file_path + '._tmp_'
tmp_file_path(file_path) == <<file_path[1], file_path[2] \o "._tmp_">>

Dirs == {"out", "alt"}
Paths == {join(dir, CkptName) : dir \in Dirs}
           \cup {tmp_file_path(join(dir, CkptName)) : dir \in Dirs}
           \cup {join(dir, OtherName) : dir \in Dirs}
           \cup {join(dir, ConfigName) : dir \in Dirs}

NoFile == [exists |-> FALSE, data |-> <<>>]
EmptyFile == [exists |-> TRUE, data |-> <<>>]

\* The config file after f.write(config_str).
ConfigFile == [exists |-> TRUE, data |-> <<"operative_config_str">>]

\* The value of a file position nobody has written (a hole).
NoDict == [step |-> -1, flat_weights |-> -1, slots_per_task |-> <<>>]
Hole == [d |-> NoDict, i |-> 0]

\* pickle.dump(obj, gzipf): the byte stream of obj, cut into NChunks writes.
pickle_dump(obj) == [i \in 1 .. NChunks |-> [d |-> obj, i |-> i]]

\* A file is a complete pickle when it is the whole byte stream of one object.
Complete(data) == Len(data) = NChunks /\ data = pickle_dump(data[1].d)

\* pickle.load(gzipf) of a complete file.
pickle_load(data) == data[1].d

\* f.write of one chunk at offset off (0-based) of a file holding data.
WriteAt(data, off, chunk) ==
    [i \in 1 .. (IF off + 1 > Len(data) THEN off + 1 ELSE Len(data)) |->
        IF i = off + 1 THEN chunk
        ELSE IF i <= Len(data) THEN data[i]
        ELSE Hole]

\* A file descriptor is the path its file is found at now; these two are not paths.
NoFd == <<"", "closed">>
OrphanFd == <<"", "unlinked">>

-----------------------------------------------------------------------------
(* Scheduling functions.  A Python function value is a record naming it.   *)

\* A buggy variant of the predicate: the step-1 clause is missing.
at_every_nth_step_only(period, step_n) ==
    step_n > 0 /\ step_n % period = 0

\* A buggy variant of the predicate: the step_n > 0 guard is missing.
at_1_and_periodically_from_0(period, step_n) ==
    (step_n = 1) \/ (step_n % period = 0)

\* _at_step_1_and_every_nth_step(period)(step_n)
at_1_and_periodically(period, step_n) ==
    (step_n = 1) \/ (step_n > 0 /\ (step_n % period = 0))

\* _never(*args)
never(step_n) == FALSE

at_step_1_and_every_nth_step(period) ==
    [fn |-> "_at_1_and_periodically", period |-> period]

never_fn == [fn |-> "_never", period |-> 0]

\* None given where a predicate is expected.
none_fn == [fn |-> "None", period |-> 0]

\* Calling a predicate value f on step_n.
CallAt(f, step_n) ==
    IF f.fn = "_at_1_and_periodically" THEN at_1_and_periodically(f.period, step_n)
    ELSE never(step_n)

\* Calling a task_at value on step_n: the default lambda _: 0, or a
\* caller-supplied round robin over n tasks.
CallTaskAt(f, step_n, n) ==
    CASE f = "lambda_0" -> 0
      [] f = "round_robin" -> step_n % n
      [] f = "minus_one" -> -1
      [] OTHER -> step_n

\* Python's list indexing: tasks[index] exists for -len <= index < len, a
\* negative index counting from the end; otherwise IndexError.
in_range(index, n) == -n <= index /\ index < n

\* The position (from 1) of the element that tasks[index] selects.
list_position(index, n) == IF index < 0 THEN index + n + 1 ELSE index + 1

-----------------------------------------------------------------------------
(* Data sources, eval tasks and Loop.run_evals.                             *)

\* Sequences over S of length at most n.
SeqsUpTo(S, n) == UNION {[1 .. k -> S] : k \in 0 .. n}

\* labeled_data: an iterator that never ends, or one with `left` batches
\* to give before next() raises StopIteration.
EndlessData == [endless |-> TRUE, left |-> 0]

FiniteData(n) == [endless |-> FALSE, left |-> n]

\* Whether next(labeled_data) returns a batch.
has_next(labeled_data) == labeled_data.endless \/ labeled_data.left > 0

\* The iterator after next(labeled_data) has returned a batch.
after_next(labeled_data) ==
    IF labeled_data.endless THEN labeled_data
    ELSE [labeled_data EXCEPT !.left = @ - 1]

\* None in the place of an EvalTask.  An EvalTask of a Loop is its metric
\* names, n_eval_batches, and its data: the metric vector that the metrics
\* function gives on each batch of the source, the next batch being data[pos].
NoEvalTask ==
    [present |-> FALSE, metric_names |-> <<>>, n_eval_batches |-> 0,
     data |-> <<>>, pos |-> 1, endless |-> FALSE]

\* eval_tasks=None
NoEvalTasks == [given |-> FALSE, list |-> <<>>]

\* An EvalTask with one metric over an endless source of equal batches.
StdEvalTask ==
    [present |-> TRUE, metric_names |-> <<"loss">>, n_eval_batches |-> 1,
     data |-> << <<1>> >>, pos |-> 1, endless |-> TRUE]

\* How many batches the batch loop of run_evals gets from eval_task: all
\* n_eval_batches, or fewer when the source runs out first.
eval_pulled(eval_task) ==
    LET left == Len(eval_task.data) - eval_task.pos + 1
    IN  IF eval_task.endless \/ left >= eval_task.n_eval_batches
        THEN eval_task.n_eval_batches
        ELSE left

\* The metric vectors of the first n batches eval_task.next_batch() gives.
eval_batches(eval_task, n) ==
    [k \in 1 .. n |->
        eval_task.data[((eval_task.pos + k - 2) % Len(eval_task.data)) + 1]]

\* The eval task after n calls of next_batch.
eval_task_after(eval_task, n) ==
    [eval_task EXCEPT !.pos = IF eval_task.endless
                               THEN ((@ + n - 1) % Len(eval_task.data)) + 1
                               ELSE @ + n]

\* sums += metric_values for each batch; averages = sums / n_batches.  A
\* quotient is kept as the fraction num / den.
averages(batches, n_metrics, n_batches) ==
    [m \in 1 .. n_metrics |->
        LET sums[k \in 0 .. n_batches] ==
                IF k = 0 THEN 0 ELSE sums[k - 1] + batches[k][m]
        IN  [num |-> sums[n_batches], den |-> n_batches]]

\* dict(zip(names, values)).items(): one item for each distinct name, in
\* the order the names first occur, holding the value zipped with the
\* name's last occurrence.
dict_zip(names, values) ==
    LET n == IF Len(names) < Len(values) THEN Len(names) ELSE Len(values)
        first(i) == \A j \in 1 .. (i - 1) : names[j] # names[i]
        last(i) == CHOOSE j \in i .. n :
                       names[j] = names[i] /\ \A l \in (j + 1) .. n : names[l] # names[i]
        keys == SelectSeq([i \in 1 .. n |-> i], first)
    IN  [k \in 1 .. Len(keys) |->
            [name |-> names[keys[k]], value |-> values[last(keys[k])]]]

\* A buggy variant of run_evals' loop body: None is not skipped, and
\* reading its n_eval_batches raises.
eval_one_task_none_not_skipped(eval_task, task_index, write_summaries) ==
    [eval_task |-> eval_task, pulled |-> 0, rng |-> 0,
     raised |-> IF eval_task.present THEN "" ELSE "AttributeError", log |-> <<>>]

\* What run_evals does on the eval task of index task_index (0-based) when
\* it gets there: the batches pulled, the PRNG keys drawn, the error, the
\* entries logged (summary says whether the entry also goes to the writer).
eval_one_task(eval_task, task_index, write_summaries) ==
    IF ~eval_task.present
    THEN [eval_task |-> eval_task, pulled |-> 0, rng |-> 0, raised |-> "",
          log |-> <<>>]
    ELSE LET n_batches == eval_task.n_eval_batches
             pulled == eval_pulled(eval_task)
         IN  IF pulled < n_batches
             THEN [eval_task |-> eval_task_after(eval_task, pulled),
                   pulled |-> pulled, rng |-> pulled + 1,
                   raised |-> "StopIteration", log |-> <<>>]
             ELSE LET all_metrics ==
                          dict_zip(eval_task.metric_names,
                                   averages(eval_batches(eval_task, n_batches),
                                            Len(eval_task.metric_names), n_batches))
                  IN  [eval_task |-> eval_task_after(eval_task, n_batches),
                       pulled |-> n_batches, rng |-> n_batches, raised |-> "",
                       log |-> [k \in 1 .. Len(all_metrics) |->
                                   [task |-> task_index,
                                    name |-> all_metrics[k].name,
                                    value |-> all_metrics[k].value,
                                    summary |-> write_summaries]]]

\* Nothing evaluated.
NoEvals == [eval_tasks |-> <<>>, raised |-> "", per_task |-> <<>>, log |-> <<>>]

\* Loop.run_evals(summary_writers) over eval_tasks in index order, stopping
\* at the first error: the eval tasks afterwards, the error, what was done
\* per task and the entries logged, in order.  summary_writers has n_writers
\* entries, and summary_writers[task_index] of an eval task that is there
\* raises IndexError beyond them.
run_evals(eval_tasks, n_writers, write_summaries) ==
    LET untouched(i) == [eval_task |-> eval_tasks[i], pulled |-> 0, rng |-> 0,
                         raised |-> "", log |-> <<>>]
        one(i) == IF eval_tasks[i].present /\ i > n_writers
                  THEN [untouched(i) EXCEPT !.raised = "IndexError"]
                  ELSE eval_one_task(eval_tasks[i], i - 1, write_summaries)
        failed_before(i) == \E j \in 1 .. (i - 1) : one(j).raised # ""
        done(i) == IF failed_before(i) THEN untouched(i) ELSE one(i)
        n == Len(eval_tasks)
        logs[i \in 0 .. n] == IF i = 0 THEN <<>> ELSE logs[i - 1] \o done(i).log
    IN  [eval_tasks |-> [i \in 1 .. n |-> done(i).eval_task],
         raised |-> IF \E i \in 1 .. n : done(i).raised # ""
                    THEN done(CHOOSE i \in 1 .. n : done(i).raised # "").raised
                    ELSE "",
         per_task |-> [i \in 1 .. n |->
                          [pulled |-> done(i).pulled, rng |-> done(i).rng]],
         log |-> logs[n]]

-----------------------------------------------------------------------------
(* Floating-point arithmetic and _make_weights_and_state_same_across_hosts. *)
(* A floating-point value is a natural number counting units of the        *)
(* smallest positive value of the format: every number below               *)
(* 2^MantissaBits is a value, and above it the values are the mantissas of *)
(* MantissaBits bits times a power of two.  Overflow is not modelled.      *)

RECURSIVE pow2(_)
pow2(n) == IF n <= 0 THEN 1 ELSE 2 * pow2(n - 1)

\* num / den rounded to the nearest integer, a tie to the even one.
round_half_even(num, den) ==
    LET q == num \div den
        r == num % den
    IN  IF 2 * r < den THEN q
        ELSE IF 2 * r > den THEN q + 1
        ELSE IF q % 2 = 0 THEN q ELSE q + 1

\* The least e >= from with num / den < 2^(MantissaBits + e).
RECURSIVE exponent(_, _, _)
exponent(num, den, from) ==
    IF num < den * pow2(MantissaBits + from) THEN from
    ELSE exponent(num, den, from + 1)

\* The floating-point value nearest to num / den.
fl(num, den) ==
    LET e == exponent(num, den, 0)
    IN  round_half_even(num, den * pow2(e)) * pow2(e)

is_float(n) == n >= 0 /\ fl(n, 1) = n

\* The unit in the last place of the value v.
ulp(v) == pow2(exponent(v, 1, 0))

\* fastmath.psum(x, 'devices'): the sum of the replicas of every device on
\* every host, added one after the other in floating point.
RECURSIVE psum(_)
psum(replicas) ==
    IF replicas = <<>> THEN 0
    ELSE fl(psum(SubSeq(replicas, 1, Len(replicas) - 1)) + replicas[Len(replicas)], 1)

\* self._for_n_devices(x): one replica of x for each device of the host.
for_n_devices(x, n_devices) == [d \in 1 .. n_devices |-> x]

\* The replicas of every device on every host, host after host.
RECURSIVE all_replicas(_, _)
all_replicas(host_values, n_devices) ==
    IF host_values = <<>> THEN <<>>
    ELSE LET n == Len(host_values)
         IN  all_replicas(SubSeq(host_values, 1, n - 1), SubSeq(n_devices, 1, n - 1))
                 \o for_n_devices(host_values[n], n_devices[n])

\* A buggy variant of the synchronizer: each host sums its own devices only.
make_weights_and_state_same_host_local(host_values, n_devices) ==
    [h \in 1 .. Len(host_values) |->
        LET own == for_n_devices(host_values[h], n_devices[h])
        IN  fl(psum(own), psum([d \in 1 .. Len(own) |-> 1]))]

\* self._unreplicate(_make_weights_and_state_same_across_hosts(
\* self._for_n_devices(x))) on every host at once: host h holds
\* host_values[h] on n_devices[h] devices and gets psum(x) / psum(1.0).
make_weights_and_state_same_across_hosts(host_values, n_devices) ==
    LET replicas == all_replicas(host_values, n_devices)
        n_devices_total == psum([d \in 1 .. Len(replicas) |-> 1])
        weights_and_state == psum(replicas)
    IN  [h \in 1 .. Len(host_values) |-> fl(weights_and_state, n_devices_total)]

-----------------------------------------------------------------------------
VARIABLES
    fs,         \* [Paths -> file]: the shared file system
    loop,       \* [Hosts -> Loop record]: each host's Loop object (self)
    ctl,        \* [Hosts -> record]: each host's position and call locals
    obs,        \* [Hosts -> record]: history of the host's current call
    installed,  \* history: the Loop state recorded by the last completed save
    pure        \* argument and result of a pure function applied on its own

vars == <<fs, loop, ctl, obs, installed, pure>>

\* A host without a Loop.
NoLoop ==
    [status |-> "none", is_chief |-> FALSE, n_hosts |-> 0, tasks |-> <<>>,
     eval_tasks |-> <<>>, output_dir |-> None, step |-> 0,
     checkpoint_at |-> never_fn, eval_at |-> never_fn, task_at |-> None,
     weights |-> 0]

IdleCtl ==
    [pc |-> "idle", n_left |-> 0, task_index |-> 0, d |-> NoDict,
     file_path |-> NoFd, fd |-> NoFd, off |-> 0, ret |-> "idle",
     directory |-> None, filename |-> None, raised |-> "",
     loss_acc |-> <<>>, step_acc |-> 0]

NoArgs ==
    [tasks |-> -1, period |-> 0, batches |-> EndlessData, task_at |-> None,
     eval_tasks |-> NoEvalTasks, eval_at |-> none_fn, checkpoint_at |-> none_fn,
     output_dir |-> None, random_seed |-> None]

NoSnap == [valid |-> FALSE, step |-> 0, slots |-> <<>>]

NoObs ==
    [call |-> "", args |-> NoArgs, found |-> FALSE, resumed_at |-> -1,
     n_steps |-> 0, step_before |-> 0, weights_before |-> 0,
     task_at_steps |-> {}, checkpoint_at_steps |-> {}, eval_at_steps |-> {},
     ckpt_steps |-> {}, eval_steps |-> {}, snap |-> NoSnap,
     writers |-> <<>>, evals |-> NoEvals, gin_writes |-> 0, gin_steps |-> {},
     syncs |-> 0, train_log |-> <<>>]

NoPure == [fn |-> "", args |-> <<>>, done |-> FALSE, result |-> <<>>]

\* The slots of every task, in task order.
SlotsOf(self) == [i \in 1 .. Len(self.tasks) |-> self.tasks[i].slots]

Snapshot(self) == [valid |-> TRUE, step |-> self.step, slots |-> SlotsOf(self)]

-----------------------------------------------------------------------------
(* Loop.save_checkpoint and Loop.load_checkpoint.                          *)

\* A buggy variant of the checkpoint dict: the step before the current one.
checkpoint_dict_stale_step(self) ==
    [step |-> self.step - 1, flat_weights |-> self.weights,
     slots_per_task |-> SlotsOf(self)]

\* The dict d that save_checkpoint pickles.
checkpoint_dict(self) ==
    [step |-> self.step, flat_weights |-> self.weights,
     slots_per_task |-> SlotsOf(self)]

\* A buggy variant of the slot restore: the saved slots are dropped.
restore_slots_skipped(tasks, slots_per_task) == tasks

\* for (task, slots) in zip(self._tasks, d['slots_per_task']):
\*   task.optimizer.slots = slots
restore_slots(tasks, slots_per_task) ==
    [i \in 1 .. Len(tasks) |->
        IF i <= Len(slots_per_task)
        THEN [tasks[i] EXCEPT !.slots = slots_per_task[i]]
        ELSE tasks[i]]

\* A buggy variant of load_checkpoint: a missing file resets the step.
load_checkpoint_reset(self, files, directory, filename) ==
    LET dir == IF directory = None THEN self.output_dir ELSE directory
        name == IF filename = None THEN CkptName ELSE filename
    IN  IF dir = None \/ ~files[join(dir, name)].exists
        THEN [self |-> [self EXCEPT !.step = 0], raised |-> "", found |-> FALSE]
        ELSE IF ~Complete(files[join(dir, name)].data)
        THEN [self |-> self, raised |-> "UnpickleError", found |-> TRUE]
        ELSE LET d == pickle_load(files[join(dir, name)].data)
             IN  [self |-> [self EXCEPT !.step = d.step,
                                        !.tasks = restore_slots(self.tasks, d.slots_per_task),
                                        !.weights = d.flat_weights],
                  raised |-> "", found |-> TRUE]

\* Loop.load_checkpoint(directory, filename) on the Loop self with the files
\* as they are: the Loop afterwards, the error raised ("" for none), and
\* whether a file was found at the path.
load_checkpoint(self, files, directory, filename) ==
    LET dir == IF directory = None THEN self.output_dir ELSE directory
        name == IF filename = None THEN CkptName ELSE filename
    IN  IF dir = None
        THEN [self |-> self, raised |-> "", found |-> FALSE]
        ELSE IF ~files[join(dir, name)].exists
        THEN [self |-> self, raised |-> "", found |-> FALSE]
        ELSE IF ~Complete(files[join(dir, name)].data)
        THEN [self |-> self, raised |-> "UnpickleError", found |-> TRUE]
        ELSE LET d == pickle_load(files[join(dir, name)].data)
             IN  [self |-> [self EXCEPT !.step = d.step,
                                        !.tasks = restore_slots(self.tasks, d.slots_per_task),
                                        !.weights = d.flat_weights],
                  raised |-> "", found |-> TRUE]

-----------------------------------------------------------------------------
(* Loop.__init__                                                            *)

\* A buggy variant of the task checks: the task_at assertion is missing.
tasks_accepted_no_task_at_check(tasks_n, task_at) == tasks_n > 0

\* assert tasks; if task_at is None: assert len(tasks) == 1
tasks_accepted(tasks_n, task_at) ==
    tasks_n > 0 /\ (task_at = None => tasks_n = 1)

\* A buggy variant of the synchronization test: the seed is not looked at.
sync_needed_despite_seed(random_seed, n_hosts) == n_hosts > 1

\* if random_seed is None and self._n_hosts > 1:
\*   self._sync_weights_and_state_across_hosts()
sync_needed(random_seed, n_hosts) == random_seed = None /\ n_hosts > 1

\* The weights self._model.init draws from self._rng.  The seed given, or
\* the seed of the only host, is one stream (0); with no seed on several
\* hosts init_host_and_devices derives the seed from host_id, another stream
\* on every host.
init_weights(h, n_hosts, random_seed) ==
    IF random_seed = None /\ n_hosts > 1 THEN h ELSE 0

\* A buggy variant of the constructor: with eval_tasks=None the caller's
\* eval_at is kept.
loop_keeping_eval_at(h, n_hosts, args) ==
    LET default_at == at_step_1_and_every_nth_step(args.period)
    IN  [status |-> "ready", is_chief |-> (h = 0), n_hosts |-> n_hosts,
         tasks |-> [i \in 1 .. args.tasks |->
                       [slots |-> 0, n_steps_per_checkpoint |-> args.period,
                        labeled_data |-> args.batches]],
         eval_tasks |-> IF ~args.eval_tasks.given
                        THEN [i \in 1 .. args.tasks |-> NoEvalTask]
                        ELSE args.eval_tasks.list,
         output_dir |-> args.output_dir,
         step |-> 0,
         checkpoint_at |-> IF args.checkpoint_at.fn = "None" THEN default_at
                           ELSE args.checkpoint_at,
         eval_at |-> IF args.eval_at.fn = "None" THEN default_at ELSE args.eval_at,
         task_at |-> IF args.task_at = None THEN "lambda_0" ELSE args.task_at,
         weights |-> init_weights(h, n_hosts, args.random_seed)]

\* The Loop that __init__ builds before it calls load_checkpoint, from the
\* arguments args on host h of n_hosts.
loop_before_load(h, n_hosts, args) ==
    LET default_at == at_step_1_and_every_nth_step(args.period)
        eval_at == IF ~args.eval_tasks.given THEN never_fn ELSE args.eval_at
    IN  [status |-> "ready", is_chief |-> (h = 0), n_hosts |-> n_hosts,
         tasks |-> [i \in 1 .. args.tasks |->
                       [slots |-> 0, n_steps_per_checkpoint |-> args.period,
                        labeled_data |-> args.batches]],
         eval_tasks |-> IF ~args.eval_tasks.given
                        THEN [i \in 1 .. args.tasks |-> NoEvalTask]
                        ELSE args.eval_tasks.list,
         output_dir |-> args.output_dir,
         step |-> 0,
         checkpoint_at |-> IF args.checkpoint_at.fn = "None" THEN default_at
                           ELSE args.checkpoint_at,
         eval_at |-> IF eval_at.fn = "None" THEN default_at ELSE eval_at,
         task_at |-> IF args.task_at = None THEN "lambda_0" ELSE args.task_at,
         weights |-> init_weights(h, n_hosts, args.random_seed)]

\* Loop(model, tasks, eval_tasks=..., output_dir=..., ...) on host h: the
\* assertions, the initialization, then either load_checkpoint() at once or,
\* when the weights have to be synchronized, the entry into the collective.
Construct(h, n_hosts, args) ==
    /\ loop[h].status \in {"none", "failed"}
    /\ ctl[h].pc = "idle"
    /\ LET self == loop_before_load(h, n_hosts, args)
           r == load_checkpoint(self, fs, None, None)
           raised == IF ~tasks_accepted(args.tasks, args.task_at) THEN "AssertionError"
                     ELSE r.raised
       IN  IF tasks_accepted(args.tasks, args.task_at)
              /\ sync_needed(args.random_seed, n_hosts)
           THEN /\ loop' = [loop EXCEPT ![h] = [self EXCEPT !.status = "init"]]
                /\ ctl' = [ctl EXCEPT ![h] = [IdleCtl EXCEPT !.pc = "sync"]]
                /\ obs' = [obs EXCEPT ![h] =
                              [NoObs EXCEPT !.call = "init", !.args = args,
                                            !.syncs = 1]]
           ELSE /\ loop' = [loop EXCEPT ![h] =
                              IF raised # "" THEN [NoLoop EXCEPT !.status = "failed"]
                              ELSE r.self]
                /\ ctl' = [ctl EXCEPT ![h] = [IdleCtl EXCEPT !.raised = raised]]
                /\ obs' = [obs EXCEPT ![h] =
                              [NoObs EXCEPT !.call = "init", !.args = args,
                                            !.found = (raised = "" /\ r.found),
                                            !.resumed_at =
                                                IF /\ raised = ""
                                                   /\ args.output_dir # None
                                                   /\ fs[join(args.output_dir, CkptName)].exists
                                                THEN installed.step ELSE -1]]
    /\ UNCHANGED <<fs, installed, pure>>

\* The collective inside _sync_weights_and_state_across_hosts: it completes
\* once every host of the computation has entered it, and leaves the same
\* weights on all of them.  Each host has one device.
SyncCollective ==
    /\ \E h \in Hosts : ctl[h].pc = "sync"
    /\ LET n_hosts == loop[CHOOSE h \in Hosts : ctl[h].pc = "sync"].n_hosts
           same == make_weights_and_state_same_across_hosts(
                       [i \in 1 .. n_hosts |-> loop[i - 1].weights],
                       [i \in 1 .. n_hosts |-> 1])
       IN  /\ \A h \in 0 .. (n_hosts - 1) : h \in Hosts /\ ctl[h].pc = "sync"
           /\ loop' = [h \in Hosts |->
                          IF h < n_hosts THEN [loop[h] EXCEPT !.weights = same[h + 1]]
                          ELSE loop[h]]
           /\ ctl' = [h \in Hosts |->
                         IF h < n_hosts THEN [ctl[h] EXCEPT !.pc = "synced"]
                         ELSE ctl[h]]
    /\ UNCHANGED <<fs, obs, installed, pure>>

\* The rest of __init__ after the synchronization: self.load_checkpoint().
ConstructLoad(h) ==
    /\ ctl[h].pc = "synced"
    /\ LET r == load_checkpoint(loop[h], fs, None, None)
       IN  /\ loop' = [loop EXCEPT ![h] =
                         IF r.raised # "" THEN [NoLoop EXCEPT !.status = "failed"]
                         ELSE [r.self EXCEPT !.status = "ready"]]
           /\ ctl' = [ctl EXCEPT ![h] = [IdleCtl EXCEPT !.raised = r.raised]]
           /\ obs' = [obs EXCEPT ![h].found = (r.raised = "" /\ r.found),
                                 ![h].resumed_at =
                                     IF /\ r.raised = ""
                                        /\ loop[h].output_dir # None
                                        /\ fs[join(loop[h].output_dir, CkptName)].exists
                                     THEN installed.step ELSE -1]
    /\ UNCHANGED <<fs, installed, pure>>

\* Loop.load_checkpoint(directory, filename) is called.
LoadCall(h, directory, filename) ==
    /\ loop[h].status = "ready"
    /\ ctl[h].pc = "idle"
    /\ ctl' = [ctl EXCEPT ![h] = [IdleCtl EXCEPT !.pc = "load",
                                                 !.directory = directory,
                                                 !.filename = filename]]
    /\ obs' = [obs EXCEPT ![h].call = "load_checkpoint", ![h].found = FALSE,
                          ![h].step_before = loop[h].step, ![h].resumed_at = -1,
                          ![h].writers = <<>>, ![h].evals = NoEvals,
                          ![h].train_log = <<>>]
    /\ UNCHANGED <<fs, loop, installed, pure>>

\* The body of Loop.load_checkpoint.
LoadBody(h) ==
    /\ ctl[h].pc = "load"
    /\ LET r == load_checkpoint(loop[h], fs, ctl[h].directory, ctl[h].filename)
       IN  /\ loop' = [loop EXCEPT ![h] = r.self]
           /\ ctl' = [ctl EXCEPT ![h] = [IdleCtl EXCEPT !.raised = r.raised]]
           /\ obs' = [obs EXCEPT ![h].found = r.found]
    /\ UNCHANGED <<fs, installed, pure>>

-----------------------------------------------------------------------------
(* Loop.save_checkpoint and pickle_to_file, one file operation at a time.  *)

\* Entering save_checkpoint with the control record c; ret is where the
\* caller goes on afterwards.  Without an output directory it only logs.
save_checkpoint_enter(self, c, ret) ==
    IF self.output_dir = None
    THEN [c EXCEPT !.pc = ret]
    ELSE [c EXCEPT !.pc = "pickle_open", !.d = checkpoint_dict(self),
                   !.file_path = join(self.output_dir, CkptName), !.ret = ret]

\* An error raised inside save_checkpoint with the control record c: it
\* ends a direct call, and inside run it leaves the loop through the exit
\* of the summary-writer context.
raise(c, error) ==
    [IdleCtl EXCEPT !.pc = IF c.ret = "idle" THEN "idle" ELSE "unwind",
                    !.task_index = c.task_index, !.raised = error]

\* Loop.save_checkpoint() is called.
SaveCall(h) ==
    /\ loop[h].status = "ready"
    /\ ctl[h].pc = "idle"
    /\ ctl' = [ctl EXCEPT ![h] = save_checkpoint_enter(loop[h], IdleCtl, "idle")]
    /\ obs' = [obs EXCEPT ![h].call = "save_checkpoint", ![h].resumed_at = -1,
                          ![h].snap = Snapshot(loop[h]),
                          ![h].writers = <<>>, ![h].evals = NoEvals,
                          ![h].train_log = <<>>]
    /\ UNCHANGED <<fs, loop, installed, pure>>

\* with tf.io.gfile.GFile(tmp_file_path, 'wb') as f: creates or truncates.
PickleOpen(h) ==
    /\ ctl[h].pc = "pickle_open"
    /\ LET tmp == tmp_file_path(ctl[h].file_path)
       IN  /\ fs' = [fs EXCEPT ![tmp] = EmptyFile]
           /\ ctl' = [ctl EXCEPT ![h].pc = "pickle_write", ![h].fd = tmp,
                                 ![h].off = 0]
    /\ UNCHANGED <<loop, obs, installed, pure>>

\* One write of pickle.dump; the file is closed after the last one.
PickleWrite(h) ==
    /\ ctl[h].pc = "pickle_write"
    /\ LET c == ctl[h]
           chunk == pickle_dump(c.d)[c.off + 1]
           last == c.off + 1 = NChunks
       IN  /\ fs' = IF c.fd \in Paths
                    THEN [fs EXCEPT ![c.fd].data = WriteAt(@, c.off, chunk)]
                    ELSE fs
           /\ ctl' = [ctl EXCEPT ![h].off = c.off + 1,
                                 ![h].pc = IF last THEN "pickle_rename" ELSE "pickle_write",
                                 ![h].fd = IF last THEN NoFd ELSE c.fd]
    /\ UNCHANGED <<loop, obs, installed, pure>>

\* tf.io.gfile.rename(tmp_file_path, file_path, overwrite=True): the file
\* moves, and so does every descriptor still open on it; a descriptor open
\* on the file it replaces is left on an unlinked file.
PickleRename(h) ==
    /\ ctl[h].pc = "pickle_rename"
    /\ LET src == tmp_file_path(ctl[h].file_path)
           dst == ctl[h].file_path
           moved(fd) == IF src = dst THEN fd
                        ELSE IF fd = src THEN dst
                        ELSE IF fd = dst THEN OrphanFd
                        ELSE fd
       IN  IF ~fs[src].exists
           THEN /\ ctl' = [ctl EXCEPT ![h] = raise(ctl[h], "NotFoundError")]
                /\ obs' = [obs EXCEPT ![h].snap = NoSnap]
                /\ UNCHANGED <<fs, installed>>
           ELSE /\ fs' = IF src = dst THEN fs
                         ELSE [fs EXCEPT ![dst] = fs[src], ![src] = NoFile]
                /\ ctl' = [g \in Hosts |->
                             IF g = h
                             THEN [ctl[g] EXCEPT !.pc = ctl[g].ret, !.ret = "idle",
                                                 !.d = NoDict, !.file_path = NoFd,
                                                 !.off = 0]
                             ELSE [ctl[g] EXCEPT !.fd = moved(ctl[g].fd)]]
                /\ obs' = [obs EXCEPT ![h].snap = NoSnap]
                /\ installed' = obs[h].snap
    /\ UNCHANGED <<loop, pure>>

\* The file operation that pickle_to_file is about to do fails (the disk
\* is full, the directory is gone): the descriptor is closed by the with
\* statement, the temp file stays as it is, the error leaves save_checkpoint.
PickleFail(h) ==
    /\ ctl[h].pc \in {"pickle_open", "pickle_write", "pickle_rename"}
    /\ ctl' = [ctl EXCEPT ![h] = raise(ctl[h], "OSError")]
    /\ obs' = [obs EXCEPT ![h].snap = NoSnap]
    /\ UNCHANGED <<fs, loop, installed, pure>>

-----------------------------------------------------------------------------
(* Loop.run                                                                 *)

\* _open_summary_writers(('train', 'eval')): with an output directory one
\* writer for each subdir and each entry of _output_dir_per_task (one per
\* eval task); without, only None writers.
open_summary_writers(self) ==
    IF self.output_dir = None THEN <<>>
    ELSE LET n == Len(self.eval_tasks)
         IN  [i \in 1 .. (2 * n) |->
                 [subdir |-> IF i <= n THEN "train" ELSE "eval",
                  task |-> (i - 1) % n, open |-> TRUE, closes |-> 0]]

\* A buggy variant of the exit of the writer context: no finally clause.
writers_at_exit_no_finally(writers, raised) ==
    IF raised # "" THEN writers
    ELSE [i \in 1 .. Len(writers) |->
             [writers[i] EXCEPT !.open = FALSE, !.closes = @ + 1]]

\* The finally clause of _open_summary_writers: writer.close() on every
\* writer, whether the body of the with statement raised or not.
writers_at_exit(writers, raised) ==
    [i \in 1 .. Len(writers) |->
        [writers[i] EXCEPT !.open = FALSE, !.closes = @ + 1]]

\* A buggy variant of _run_one_step's failures: an exhausted source is not noticed.
run_one_step_error_unnoticed(tasks, task_index) ==
    IF ~in_range(task_index, Len(tasks)) THEN "IndexError" ELSE ""

\* The error _run_one_step(task_index) raises before it trains: IndexError
\* from self._tasks[task_index], StopIteration from next_batch().
run_one_step_error(tasks, task_index) ==
    IF ~in_range(task_index, Len(tasks)) THEN "IndexError"
    ELSE IF ~has_next(tasks[list_position(task_index, Len(tasks))].labeled_data)
    THEN "StopIteration"
    ELSE ""

\* _save_gin writes the config file only on the chief host and only with
\* an output directory.
save_gin_writes(self) == self.is_chief /\ self.output_dir # None

\* How many writers run holds for each of 'train' and 'eval': with an
\* output directory one for each entry of _output_dir_per_task, that is for
\* each eval task; without, one None for each task.
writers_per_subdir(self) ==
    IF self.output_dir = None THEN Len(self.tasks) ELSE Len(self.eval_tasks)

\* A buggy variant of the flush: only the steps of the active task count.
training_progress_of_active_task(self, task_index, loss_acc, step_acc) ==
    LET own == SelectSeq(loss_acc, LAMBDA t : t.task_index = task_index)
    IN  [step |-> self.step, task_index |-> task_index,
         loss_name |-> list_position(task_index, Len(self.tasks)),
         total_loss |-> own,
         n_steps |-> IF Len(own) < 1 THEN 1 ELSE Len(own),
         writer |-> IF self.output_dir = None THEN 0
                    ELSE list_position(task_index, Len(self.eval_tasks)),
         summary |-> self.is_chief /\ self.output_dir # None]

\* A buggy variant of the flush: always the name and writer of the first task.
training_progress_under_first_task(self, task_index, loss_acc, step_acc) ==
    [step |-> self.step, task_index |-> task_index,
     loss_name |-> 1,
     total_loss |-> loss_acc,
     n_steps |-> IF step_acc < 1 THEN 1 ELSE step_acc,
     writer |-> IF self.output_dir = None THEN 0 ELSE 1,
     summary |-> self.is_chief /\ self.output_dir # None]

\* What _log_training_progress(task=self._tasks[task_index],
\* total_loss=loss_acc, n_steps=step_acc, ...,
\* summary_writer=train_summary_writers[task_index]) logs at self.step:
\* total_loss / max(1, n_steps) under the loss name of that task
\* (loss_name is the position of the task), to the train writer of that
\* index (0 for a None writer).  total_loss is kept as the terms added.
training_progress(self, task_index, loss_acc, step_acc) ==
    [step |-> self.step, task_index |-> task_index,
     loss_name |-> list_position(task_index, Len(self.tasks)),
     total_loss |-> loss_acc,
     n_steps |-> IF step_acc < 1 THEN 1 ELSE step_acc,
     writer |-> IF self.output_dir = None THEN 0
                ELSE list_position(task_index, Len(self.eval_tasks)),
     summary |-> self.is_chief /\ self.output_dir # None]

\* A buggy variant of the step increment: the counter is not advanced.
next_step_stuck(step) == step

\* self._step += 1
next_step(step) == step + 1

\* Loop.run(n_steps) is called: the accumulators are reset.
RunCall(h, n_steps) ==
    /\ loop[h].status = "ready"
    /\ ctl[h].pc = "idle"
    /\ ctl' = [ctl EXCEPT ![h] = [IdleCtl EXCEPT !.pc = "loop", !.n_left = n_steps]]
    /\ obs' = [obs EXCEPT ![h] =
                  [@ EXCEPT !.call = "run",
                            !.resumed_at = IF obs[h].call = "init" THEN @ ELSE -1,
                            !.n_steps = n_steps, !.step_before = loop[h].step,
                            !.weights_before = loop[h].weights,
                            !.task_at_steps = {}, !.checkpoint_at_steps = {},
                            !.eval_at_steps = {}, !.ckpt_steps = {},
                            !.eval_steps = {}, !.evals = NoEvals,
                            !.train_log = <<>>,
                            !.writers = open_summary_writers(loop[h])]]
    /\ UNCHANGED <<fs, loop, installed, pure>>

\* One iteration up to the checkpoint test: the step is incremented, the
\* task is chosen and _run_one_step updates the weights and that task's slots.
RunStep(h) ==
    /\ ctl[h].pc = "loop"
    /\ ctl[h].n_left > 0
    /\ LET self == loop[h]
           step == next_step(self.step)
           n == Len(self.tasks)
           task_index == CallTaskAt(self.task_at, step, n)
           raised == run_one_step_error(self.tasks, task_index)
           i == list_position(task_index, n)
       IN  /\ loop' = IF raised # "" THEN [loop EXCEPT ![h].step = step]
                      ELSE [loop EXCEPT ![h].step = step,
                                        ![h].tasks[i].slots = @ + 1,
                                        ![h].tasks[i].labeled_data = after_next(@),
                                        ![h].weights = @ + 1]
           /\ ctl' = [ctl EXCEPT ![h].pc = IF raised # "" THEN "unwind" ELSE "ckpt",
                                 ![h].task_index = task_index,
                                 ![h].raised = raised,
                                 ![h].loss_acc =
                                     IF raised # "" THEN @
                                     ELSE Append(@, [step |-> step,
                                                     task_index |-> task_index]),
                                 ![h].step_acc = IF raised # "" THEN @ ELSE @ + 1]
           /\ obs' = [obs EXCEPT ![h].task_at_steps = @ \cup {step}]
    /\ UNCHANGED <<fs, installed, pure>>

\* if self._checkpoint_at(self.step): self.save_checkpoint()
RunCheckpoint(h) ==
    /\ ctl[h].pc = "ckpt"
    /\ LET self == loop[h]
           hit == CallAt(self.checkpoint_at, self.step)
       IN  /\ ctl' = [ctl EXCEPT ![h] =
                         IF hit THEN save_checkpoint_enter(self, @, "eval")
                         ELSE [@ EXCEPT !.pc = "eval"]]
           /\ obs' = [obs EXCEPT
                         ![h].checkpoint_at_steps = @ \cup {self.step},
                         ![h].ckpt_steps = IF hit THEN @ \cup {self.step} ELSE @,
                         ![h].snap = IF hit THEN Snapshot(self) ELSE @]
    /\ UNCHANGED <<fs, loop, installed, pure>>

\* if self._eval_at(self.step): the train writer of task_index is looked up,
\* _log_training_progress flushes the accumulators and saves the config at
\* step 1, then run_evals with the eval writers, then the accumulators are
\* reset; then the next iteration.
RunEval(h) ==
    /\ ctl[h].pc = "eval"
    /\ LET self == loop[h]
           hit == CallAt(self.eval_at, self.step)
           no_writer == hit /\ ~in_range(ctl[h].task_index, writers_per_subdir(self))
           logs == hit /\ ~no_writer
           gin == logs /\ self.step = 1 /\ save_gin_writes(self)
       IN  \E r \in {IF logs THEN run_evals(self.eval_tasks, writers_per_subdir(self),
                                            self.is_chief /\ self.output_dir # None)
                      ELSE NoEvals} :
           /\ loop' = IF logs THEN [loop EXCEPT ![h].eval_tasks = r.eval_tasks] ELSE loop
           /\ fs' = IF gin THEN [fs EXCEPT ![join(self.output_dir, ConfigName)] = ConfigFile]
                    ELSE fs
           /\ ctl' = IF no_writer
                     THEN [ctl EXCEPT ![h].pc = "unwind", ![h].raised = "IndexError"]
                     ELSE IF logs /\ r.raised # ""
                     THEN [ctl EXCEPT ![h].pc = "unwind", ![h].raised = r.raised]
                     ELSE [ctl EXCEPT ![h].pc = "loop", ![h].n_left = @ - 1,
                                      ![h].loss_acc = IF hit THEN <<>> ELSE @,
                                      ![h].step_acc = IF hit THEN 0 ELSE @]
           /\ obs' = [obs EXCEPT
                         ![h].eval_at_steps = @ \cup {self.step},
                         ![h].eval_steps = IF hit THEN @ \cup {self.step} ELSE @,
                         ![h].train_log =
                             IF logs
                             THEN Append(@, training_progress(self, ctl[h].task_index,
                                                              ctl[h].loss_acc,
                                                              ctl[h].step_acc))
                             ELSE @,
                         ![h].evals = IF logs THEN r ELSE @,
                         ![h].gin_writes = IF gin /\ @ < 2 THEN @ + 1 ELSE @,
                         ![h].gin_steps = IF gin THEN @ \cup {self.step} ELSE @]
    /\ UNCHANGED <<installed, pure>>

\* run is left: the loop is over, or an error is on its way to the caller;
\* either way the exit of the with statement closes the summary writers.
RunReturn(h) ==
    /\ \/ ctl[h].pc = "loop" /\ ctl[h].n_left <= 0
       \/ ctl[h].pc = "unwind"
    /\ ctl' = [ctl EXCEPT ![h] = [IdleCtl EXCEPT !.raised = ctl[h].raised]]
    /\ obs' = [obs EXCEPT ![h].writers = writers_at_exit(@, ctl[h].raised)]
    /\ UNCHANGED <<fs, loop, installed, pure>>

\* Loop.run_evals() called on its own, without summary writers.
RunEvalsCall(h) ==
    /\ loop[h].status = "ready"
    /\ ctl[h].pc = "idle"
    /\ \E r \in {run_evals(loop[h].eval_tasks, Len(loop[h].eval_tasks), FALSE)} :
           /\ loop' = [loop EXCEPT ![h].eval_tasks = r.eval_tasks]
           /\ ctl' = [ctl EXCEPT ![h] = [IdleCtl EXCEPT !.raised = r.raised]]
           /\ obs' = [obs EXCEPT ![h].call = "run_evals", ![h].resumed_at = -1,
                                 ![h].step_before = loop[h].step,
                                 ![h].writers = <<>>, ![h].evals = r,
                                 ![h].train_log = <<>>]
    /\ UNCHANGED <<fs, installed, pure>>

\* The process of host h dies: its Loop and its open descriptor are gone,
\* the files stay as they are.
Crash(h) ==
    /\ loop[h].status = "ready"
    /\ loop' = [loop EXCEPT ![h] = NoLoop]
    /\ ctl' = [ctl EXCEPT ![h] = IdleCtl]
    /\ obs' = [obs EXCEPT ![h] = [NoObs EXCEPT !.args = obs[h].args]]
    /\ UNCHANGED <<fs, installed, pure>>

-----------------------------------------------------------------------------
(* One host: any construction, any sequence of calls, crashes.             *)

Init ==
    /\ fs = [p \in Paths |-> NoFile]
    /\ loop = [h \in Hosts |-> NoLoop]
    /\ ctl = [h \in Hosts |-> IdleCtl]
    /\ obs = [h \in Hosts |-> NoObs]
    /\ installed = NoSnap
    /\ pure = NoPure

\* A process started again after a crash runs the same program: it builds
\* its Loop from the same arguments.
SameProgram(h, args) ==
    (loop[h].status = "none" /\ obs[h].args # NoArgs) => obs[h].args = args

\* The constructor arguments explored: tasks is len(tasks), period their
\* n_steps_per_checkpoint.
ConstructorArgs ==
    {args \in [tasks : 0 .. MaxTasks, period : 1 .. MaxPeriod,
               batches : {EndlessData}, task_at : {None, "round_robin"},
               eval_tasks : {NoEvalTasks} \cup
                   {[given |-> TRUE, list |-> [i \in 1 .. n |-> StdEvalTask]] :
                        n \in 0 .. MaxTasks},
               eval_at : {none_fn}, checkpoint_at : {none_fn, never_fn},
               output_dir : {None, "out"}, random_seed : {None}] :
         args.eval_tasks.given => Len(args.eval_tasks.list) = args.tasks}

Next ==
    \/ /\ loop[0].status \in {"none", "failed"}
       /\ \E args \in ConstructorArgs :
             /\ SameProgram(0, args)
             /\ Construct(0, 1, args)
    \/ \E n_steps \in 0 .. MaxRun :
          /\ loop[0].step + n_steps <= MaxStep
          /\ RunCall(0, n_steps)
    \/ RunStep(0)
    \/ RunCheckpoint(0)
    \/ RunEval(0)
    \/ RunReturn(0)
    \/ RunEvalsCall(0)
    \/ SaveCall(0)
    \/ PickleOpen(0)
    \/ PickleWrite(0)
    \/ PickleRename(0)
    \/ \E directory \in {None, "out", "alt"}, filename \in {None, OtherName} :
          LoadCall(0, directory, filename)
    \/ LoadBody(0)
    \/ Crash(0)

Spec == Init /\ [][Next]_vars

-----------------------------------------------------------------------------
(* Several hosts of one run: every host builds the same Loop over the      *)
(* shared output directory, trains, saves and loads.                       *)

NextHosts ==
    \E h \in {0, 1} :
        \/ /\ loop[h].status \in {"none", "failed"}
           /\ \E eval_tasks \in {NoEvalTasks, [given |-> TRUE, list |-> <<StdEvalTask>>]} :
                 Construct(h, 2, [tasks |-> 1, period |-> 1, batches |-> EndlessData,
                                  task_at |-> None, eval_tasks |-> eval_tasks,
                                  eval_at |-> none_fn, checkpoint_at |-> none_fn,
                                  output_dir |-> "out", random_seed |-> "seed"])
        \/ \E n_steps \in 1 .. 2 :
              /\ loop[h].step + n_steps <= 2
              /\ RunCall(h, n_steps)
        \/ RunStep(h)
        \/ RunCheckpoint(h)
        \/ RunEval(h)
        \/ RunReturn(h)
        \/ PickleOpen(h)
        \/ PickleWrite(h)
        \/ PickleRename(h)
        \/ LoadCall(h, None, None)
        \/ LoadBody(h)

SpecHosts == Init /\ [][NextHosts]_vars

-----------------------------------------------------------------------------
(* The hosts of one computation: each host's process builds its Loop from  *)
(* the same program, with or without a seed, and then calls its methods.   *)
(* The whole job can be stopped and started again.                         *)

SyncArgs(random_seed) ==
    [tasks |-> 1, period |-> 1, batches |-> EndlessData, task_at |-> None,
     eval_tasks |-> [given |-> TRUE, list |-> <<StdEvalTask>>],
     eval_at |-> none_fn, checkpoint_at |-> none_fn,
     output_dir |-> "out", random_seed |-> random_seed]

\* Every host of the computation sees the same host count and runs the same
\* program.
SameComputation(n_hosts, args) ==
    \A g \in Hosts :
        /\ obs[g].args # NoArgs => obs[g].args = args
        /\ loop[g].status \in {"init", "ready"} => loop[g].n_hosts = n_hosts

\* The process of host h starts and builds its Loop.
ConstructSync(h) ==
    /\ loop[h].status = "none"
    /\ \E n_hosts \in {1, 2}, random_seed \in {None, "seed"} :
          /\ h < n_hosts
          /\ SameComputation(n_hosts, SyncArgs(random_seed))
          /\ Construct(h, n_hosts, SyncArgs(random_seed))

\* The job is stopped: every process ends, the files stay.
RestartJob ==
    /\ \E h \in Hosts : loop[h].status # "none"
    /\ \A h \in Hosts : ctl[h].pc \in {"idle", "sync", "synced"}
    /\ loop' = [h \in Hosts |-> NoLoop]
    /\ ctl' = [h \in Hosts |-> IdleCtl]
    /\ obs' = [h \in Hosts |-> NoObs]
    /\ UNCHANGED <<fs, installed, pure>>

\* No other host is inside a method call.
OthersIdle(h) == \A g \in {0, 1} \ {h} : ctl[g].pc \in {"idle", "sync", "synced"}

NextSync ==
    \/ \E h \in {0, 1} :
          \/ ConstructSync(h)
          \/ ConstructLoad(h)
          \/ /\ loop[h].step = 0
             /\ OthersIdle(h)
             /\ RunCall(h, 1)
          \/ RunStep(h)
          \/ RunCheckpoint(h)
          \/ RunEval(h)
          \/ RunReturn(h)
          \/ /\ OthersIdle(h)
             /\ RunEvalsCall(h)
          \/ /\ OthersIdle(h)
             /\ SaveCall(h)
          \/ PickleOpen(h)
          \/ PickleWrite(h)
          \/ PickleRename(h)
          \/ /\ OthersIdle(h)
             /\ LoadCall(h, None, None)
          \/ LoadBody(h)
    \/ SyncCollective
    \/ RestartJob

\* Every started process runs its constructor to the end, and a collective
\* that all its hosts have entered completes.
SpecSync ==
    /\ Init
    /\ [][NextSync]_vars
    /\ \A h \in {0, 1} : WF_vars(ConstructSync(h)) /\ WF_vars(ConstructLoad(h))
    /\ WF_vars(SyncCollective)

-----------------------------------------------------------------------------
(* The end-to-end schedule: a fresh Loop with one task of the default      *)
(* checkpoint period and eval tasks, driven by run(250).                   *)

NextSchedule ==
    \/ \E output_dir \in {None, "out"} :
          /\ loop[0].status = "none"
          /\ Construct(0, 1, [tasks |-> 1, period |-> n_steps_per_checkpoint_default,
                              batches |-> EndlessData, task_at |-> None,
                              eval_tasks |-> [given |-> TRUE, list |-> <<StdEvalTask>>],
                              eval_at |-> none_fn, checkpoint_at |-> none_fn,
                              output_dir |-> output_dir, random_seed |-> None])
    \/ /\ obs[0].call = "init"
       /\ RunCall(0, 250)
    \/ RunStep(0)
    \/ RunCheckpoint(0)
    \/ RunEval(0)
    \/ RunReturn(0)
    \/ PickleOpen(0)
    \/ PickleWrite(0)
    \/ PickleRename(0)

SpecSchedule == Init /\ [][NextSchedule]_vars

-----------------------------------------------------------------------------
(* Runs that can fail: caller-supplied task_at functions, data sources     *)
(* that run out, file operations that fail.  Checkpoints and evals are due *)
(* at every step.                                                           *)

\* An EvalTask whose source has one batch left.
OneBatchEvalTask == [StdEvalTask EXCEPT !.endless = FALSE]

RunArgs ==
    {args \in [tasks : 1 .. MaxTasks, period : {1, MaxPeriod + 1},
               batches : {EndlessData} \cup {FiniteData(n) : n \in 0 .. MaxBatches},
               task_at : {None, "round_robin", "minus_one", "identity"},
               eval_tasks : {NoEvalTasks} \cup
                   {[given |-> TRUE, list |-> [i \in 1 .. n |-> t]] :
                        n \in 1 .. MaxTasks, t \in {StdEvalTask, OneBatchEvalTask}},
               eval_at : {none_fn}, checkpoint_at : {none_fn},
               output_dir : {None, "out"}, random_seed : {None}] :
         args.eval_tasks.given => Len(args.eval_tasks.list) = args.tasks}

NextRun ==
    \/ /\ loop[0].status = "none"
       /\ \E args \in RunArgs : Construct(0, 1, args)
    \/ \E n_steps \in 1 .. MaxRun :
          /\ loop[0].step + n_steps <= MaxStep
          /\ RunCall(0, n_steps)
    \/ RunStep(0)
    \/ RunCheckpoint(0)
    \/ RunEval(0)
    \/ RunReturn(0)
    \/ PickleOpen(0)
    \/ PickleWrite(0)
    \/ PickleRename(0)
    \/ PickleFail(0)

SpecRun == Init /\ [][NextRun]_vars

-----------------------------------------------------------------------------
(* Any lists of tasks and eval tasks, caller-supplied eval_at and          *)
(* checkpoint_at, data sources that run out, and save_checkpoint called    *)
(* between runs.                                                            *)

CallArgs ==
    [tasks : 1 .. MaxTasks, period : {1},
     batches : {EndlessData} \cup {FiniteData(n) : n \in 0 .. MaxBatches},
     task_at : {None, "round_robin"},
     eval_tasks : {NoEvalTasks} \cup
         {[given |-> TRUE, list |-> [i \in 1 .. n |-> StdEvalTask]] :
              n \in 1 .. MaxTasks},
     eval_at : {none_fn, at_step_1_and_every_nth_step(1)},
     checkpoint_at : {none_fn, never_fn},
     output_dir : {None, "out"}, random_seed : {None}]

NextCalls ==
    \/ /\ loop[0].status = "none"
       /\ \E args \in CallArgs : Construct(0, 1, args)
    \/ \E n_steps \in 1 .. MaxRun :
          /\ loop[0].step + n_steps <= MaxStep
          /\ RunCall(0, n_steps)
    \/ RunStep(0)
    \/ RunCheckpoint(0)
    \/ RunEval(0)
    \/ RunReturn(0)
    \/ /\ obs[0].call = "run"
       /\ SaveCall(0)
    \/ PickleOpen(0)
    \/ PickleWrite(0)
    \/ PickleRename(0)

SpecCalls == Init /\ [][NextCalls]_vars

-----------------------------------------------------------------------------
(* Evals: two tasks whose eval tasks are absent or present, with one or   *)
(* two metrics, distinct or equal metric names, endless or finite sources; *)
(* run_evals is called on its own and by run, at every step.               *)

\* The metric names of the eval tasks explored.
MetricNameLists == {<<"a">>, <<"a", "b">>, <<"a", "a">>}

\* What the metrics function gives on a batch of value v: metric m measures v + m - 1.
metric_values(v, n_metrics) == [m \in 1 .. n_metrics |-> v + m - 1]

EvalChoices ==
    {[present |-> TRUE, metric_names |-> names, n_eval_batches |-> n,
      data |-> [k \in 1 .. Len(vs) |-> metric_values(vs[k], Len(names))],
      pos |-> 1, endless |-> endless] :
         names \in MetricNameLists, n \in 1 .. MaxEvalBatches,
         vs \in [1 .. MaxBatches -> 1 .. MaxValue],
         endless \in BOOLEAN}

EvalArgs ==
    [tasks : {2}, period : {1}, batches : {EndlessData}, task_at : {"round_robin"},
     eval_tasks : {NoEvalTasks} \cup
         {[given |-> TRUE, list |-> list] :
              list \in UNION {{<<c, x>>, <<x, c>>} :
                                 c \in EvalChoices \cup {NoEvalTask},
                                 x \in {NoEvalTask, StdEvalTask}}},
     eval_at : {none_fn}, checkpoint_at : {never_fn},
     output_dir : {None, "out"}, random_seed : {None}]

NextEvals ==
    \/ /\ loop[0].status = "none"
       /\ \E args \in EvalArgs : Construct(0, 1, args)
    \/ \E n_steps \in 1 .. MaxRun :
          /\ loop[0].step + n_steps <= MaxRun
          /\ RunCall(0, n_steps)
    \/ RunStep(0)
    \/ RunCheckpoint(0)
    \/ RunEval(0)
    \/ RunReturn(0)
    \/ RunEvalsCall(0)

SpecEvals == Init /\ [][NextEvals]_vars

-----------------------------------------------------------------------------
(* The default scheduling predicate on its own.                            *)

InitAt ==
    /\ fs = [p \in Paths |-> NoFile]
    /\ loop = [h \in Hosts |-> NoLoop]
    /\ ctl = [h \in Hosts |-> IdleCtl]
    /\ obs = [h \in Hosts |-> NoObs]
    /\ installed = NoSnap
    /\ pure \in {[fn |-> "_at_step_1_and_every_nth_step",
                  args |-> [period |-> period, step_n |-> step_n],
                  done |-> FALSE, result |-> FALSE] :
                     period \in 1 .. MaxPeriodN, step_n \in 0 .. MaxStepN}

\* checkpoint_at = None: self._checkpoint_at = default_at, called on step_n.
ApplyAt ==
    /\ pure.fn = "_at_step_1_and_every_nth_step"
    /\ ~pure.done
    /\ pure' = [pure EXCEPT !.done = TRUE,
                            !.result = CallAt(at_step_1_and_every_nth_step(pure.args.period),
                                              pure.args.step_n)]
    /\ UNCHANGED <<fs, loop, ctl, obs, installed>>

SpecAt == InitAt /\ [][ApplyAt]_vars

-----------------------------------------------------------------------------
(* The parameter synchronizer on its own: every host of the computation    *)
(* enters the collective with its own value on each of its devices.        *)

FloatValues == {v \in 0 .. pow2(MantissaBits) : is_float(v)}

SameArgs ==
    UNION {[host_values : [1 .. n -> FloatValues],
            n_devices : [1 .. n -> 1 .. MaxDevices]] : n \in 1 .. MaxHosts}

InitSame ==
    /\ fs = [p \in Paths |-> NoFile]
    /\ loop = [h \in Hosts |-> NoLoop]
    /\ ctl = [h \in Hosts |-> IdleCtl]
    /\ obs = [h \in Hosts |-> NoObs]
    /\ installed = NoSnap
    /\ pure \in {[fn |-> "_make_weights_and_state_same_across_hosts",
                  args |-> args, done |-> FALSE, result |-> <<>>] :
                     args \in SameArgs}

\* Every host calls the synchronizer and the collective completes.
ApplySame ==
    /\ pure.fn = "_make_weights_and_state_same_across_hosts"
    /\ ~pure.done
    /\ pure' = [pure EXCEPT !.done = TRUE,
                            !.result = make_weights_and_state_same_across_hosts(
                                           pure.args.host_values, pure.args.n_devices)]
    /\ UNCHANGED <<fs, loop, ctl, obs, installed>>

SpecSame == InitSame /\ [][ApplySame]_vars

-----------------------------------------------------------------------------
(* TrainTask.learning_rate                                                  *)

\* The schedules explored: a function step -> learning_rate.
Schedules == {"constant", "linear"}

\* self._lr_schedule(step)
CallSchedule(lr_schedule, step) ==
    IF lr_schedule = "constant" THEN 1 ELSE step + 1

\* An optimizer: the parameters it was configured with, and the live ones
\* that the trainer sets at every step.
Optimizer(learning_rate) ==
    [init_opt_params |-> [learning_rate |-> learning_rate],
     opt_params |-> [learning_rate |-> learning_rate]]

\* TrainTask(labeled_data, loss_layer, optimizer, lr_schedule)
TrainTask(optimizer, lr_schedule) ==
    [optimizer |-> optimizer, lr_schedule |-> lr_schedule]

\* A buggy variant of learning_rate: the optimizer's live rate is returned.
learning_rate_live(self, step) ==
    IF self.lr_schedule # None
    THEN CallSchedule(self.lr_schedule, step)
    ELSE self.optimizer.opt_params.learning_rate

\* TrainTask.learning_rate(step)
learning_rate(self, step) ==
    IF self.lr_schedule # None
    THEN CallSchedule(self.lr_schedule, step)
    ELSE self.optimizer.init_opt_params.learning_rate

InitLearningRate ==
    /\ fs = [p \in Paths |-> NoFile]
    /\ loop = [h \in Hosts |-> NoLoop]
    /\ ctl = [h \in Hosts |-> IdleCtl]
    /\ obs = [h \in Hosts |-> NoObs]
    /\ installed = NoSnap
    /\ pure \in {[fn |-> "TrainTask.learning_rate",
                  args |-> [task |-> TrainTask(Optimizer(rate), lr_schedule),
                            constructed_with |-> rate, step |-> 0],
                  done |-> FALSE, result |-> 0] :
                     rate \in 1 .. MaxValue, lr_schedule \in {None} \cup Schedules}

\* The trainer's one_step(batch, rng, step=step, learning_rate=learning_rate)
\* sets the optimizer's live learning rate.
SetLiveRate(rate) ==
    /\ pure.fn = "TrainTask.learning_rate"
    /\ pure' = [pure EXCEPT !.args.task.optimizer.opt_params.learning_rate = rate]
    /\ UNCHANGED <<fs, loop, ctl, obs, installed>>

\* task.learning_rate(step) is called.
CallLearningRate(step) ==
    /\ pure.fn = "TrainTask.learning_rate"
    /\ pure' = [pure EXCEPT !.done = TRUE, !.args.step = step,
                            !.result = learning_rate(pure.args.task, step)]
    /\ UNCHANGED <<fs, loop, ctl, obs, installed>>

NextLearningRate ==
    \/ \E rate \in 0 .. MaxValue + 1 : SetLiveRate(rate)
    \/ \E step \in 0 .. MaxStep : CallLearningRate(step)

SpecLearningRate == InitLearningRate /\ [][NextLearningRate]_vars

-----------------------------------------------------------------------------
(* The PRNG stream of a Loop: _init_random_number_generators and new_rng.   *)
(* A key is the seed followed by the path of splits that led to it.        *)

\* jax_random.get_prng(seed)
get_prng(seed) == <<seed>>

\* fastmath.random.split(rng): two keys derived from rng.
split(rng) == <<Append(rng, 0), Append(rng, 1)>>

\* _init_random_number_generators(seed) with an explicit seed.
init_random_number_generators(seed) == get_prng(seed)

\* A buggy variant of new_rng: the retained state is handed out as the key.
new_rng_state_handed_out(rng) == [rng |-> split(rng)[1], key |-> split(rng)[1]]

\* self._rng, rng = fastmath.random.split(self._rng); return rng
new_rng(rng) == [rng |-> split(rng)[1], key |-> split(rng)[2]]

\* The new_rng calls of one operation: __init__ draws the keys of the model
\* and of the eval model, _run_one_step one key, run_evals one key for each
\* batch.
new_rng_calls(op) == IF op = "init" THEN 2 ELSE 1

\* A Loop's stream after n more new_rng calls: the state and all keys drawn.
RECURSIVE draw(_, _)
draw(stream, n) ==
    IF n = 0 THEN stream
    ELSE LET r == new_rng(stream.rng)
         IN  draw([rng |-> r.rng, keys |-> Append(stream.keys, r.key)], n - 1)

NoStream == [seed |-> 0, ops |-> <<>>, rng |-> <<>>, keys |-> <<>>]

InitRng ==
    /\ fs = [p \in Paths |-> NoFile]
    /\ loop = [h \in Hosts |-> NoLoop]
    /\ ctl = [h \in Hosts |-> IdleCtl]
    /\ obs = [h \in Hosts |-> NoObs]
    /\ installed = NoSnap
    /\ pure = [fn |-> "new_rng", args |-> <<NoStream, NoStream>>,
               done |-> FALSE, result |-> <<>>]

\* Loop(..., random_seed=seed) is constructed as Loop i.
RngConstruct(i, seed) ==
    /\ pure.fn = "new_rng"
    /\ pure.args[i].ops = <<>>
    /\ LET d == draw([rng |-> init_random_number_generators(seed), keys |-> <<>>],
                     new_rng_calls("init"))
       IN  pure' = [pure EXCEPT !.args[i] =
                       [seed |-> seed, ops |-> <<"init">>, rng |-> d.rng,
                        keys |-> d.keys]]
    /\ UNCHANGED <<fs, loop, ctl, obs, installed>>

\* Loop i runs one training step or evaluates one batch.
RngOperation(i, op) ==
    /\ pure.fn = "new_rng"
    /\ pure.args[i].ops # <<>>
    /\ Len(pure.args[i].keys) + new_rng_calls(op) <= MaxDraws
    /\ LET d == draw([rng |-> pure.args[i].rng, keys |-> pure.args[i].keys],
                     new_rng_calls(op))
       IN  pure' = [pure EXCEPT !.args[i].ops = Append(@, op),
                                !.args[i].rng = d.rng,
                                !.args[i].keys = d.keys]
    /\ UNCHANGED <<fs, loop, ctl, obs, installed>>

NextRng ==
    \E i \in {1, 2} :
        \/ \E seed \in {1, 2} : RngConstruct(i, seed)
        \/ \E op \in {"step", "eval_batch"} : RngOperation(i, op)

SpecRng == InitRng /\ [][NextRng]_vars

-----------------------------------------------------------------------------
(* TrainTask and its batch source: an iterator over the elements 1, 2, ...  *)
(* of the source, of which `consumed` have been taken.                     *)

iter(n) == [len |-> n, consumed |-> 0]

\* A buggy variant of next: the iterator is not advanced.
next_not_advanced(it) ==
    IF it.consumed >= it.len
    THEN [raised |-> "StopIteration", item |-> 0, it |-> it]
    ELSE [raised |-> "", item |-> it.consumed + 1, it |-> it]

\* next(labeled_data): the next element, or StopIteration at the end.
next(it) ==
    IF it.consumed >= it.len
    THEN [raised |-> "StopIteration", item |-> 0, it |-> it]
    ELSE [raised |-> "", item |-> it.consumed + 1,
          it |-> [it EXCEPT !.consumed = @ + 1]]

NoTrainTask ==
    [constructed |-> FALSE, labeled_data |-> iter(0), sample_batch |-> 0,
     fed |-> <<>>, raised |-> ""]

\* TrainTask.__init__: self._sample_batch = next(labeled_data)
train_task(labeled_data) ==
    LET r == next(labeled_data)
    IN  IF r.raised # ""
        THEN [NoTrainTask EXCEPT !.raised = r.raised, !.labeled_data = r.it]
        ELSE [constructed |-> TRUE, labeled_data |-> r.it,
              sample_batch |-> r.item, fed |-> <<>>, raised |-> ""]

\* TrainTask.next_batch() in _run_one_step: the batch that the training
\* step is fed is appended to fed.
next_batch(task) ==
    LET r == next(task.labeled_data)
    IN  IF r.raised # ""
        THEN [task EXCEPT !.raised = r.raised]
        ELSE [task EXCEPT !.labeled_data = r.it, !.fed = Append(@, r.item),
                          !.raised = ""]

InitBatches ==
    /\ fs = [p \in Paths |-> NoFile]
    /\ loop = [h \in Hosts |-> NoLoop]
    /\ ctl = [h \in Hosts |-> IdleCtl]
    /\ obs = [h \in Hosts |-> NoObs]
    /\ installed = NoSnap
    /\ pure = [fn |-> "TrainTask.next_batch",
               args |-> [i \in 1 .. MaxTasks |-> NoTrainTask],
               done |-> FALSE, result |-> <<>>]

\* TrainTask(labeled_data, ...) over a source of n elements becomes task i.
ConstructTrainTask(i, n) ==
    /\ pure.fn = "TrainTask.next_batch"
    /\ ~pure.args[i].constructed
    /\ pure.args[i].raised = ""
    /\ pure' = [pure EXCEPT !.args[i] = train_task(iter(n))]
    /\ UNCHANGED <<fs, loop, ctl, obs, installed>>

\* One training step of the Loop on task i.
StepOnTask(i) ==
    /\ pure.fn = "TrainTask.next_batch"
    /\ pure.args[i].constructed
    /\ pure.args[i].raised = ""
    /\ pure' = [pure EXCEPT !.args[i] = next_batch(@)]
    /\ UNCHANGED <<fs, loop, ctl, obs, installed>>

NextBatches ==
    \E i \in 1 .. MaxTasks :
        \/ \E n \in 0 .. (MaxBatches + 2) : ConstructTrainTask(i, n)
        \/ StepOnTask(i)

SpecBatches == InitBatches /\ [][NextBatches]_vars

-----------------------------------------------------------------------------
(* EvalTask.__init__                                                        *)

\* metric_names as handed to EvalTask: None, or a list of names.
NoNames == [given |-> FALSE, names |-> <<>>]

\* Python's truth value of metric_names: None and the empty list are false.
Truthy(metric_names) == metric_names.given /\ metric_names.names # <<>>

\* EvalTask._default_names: [m.name for m in self._metrics]
default_names(metrics) == [i \in 1 .. Len(metrics) |-> metrics[i]]

\* EvalTask.__init__ with _check_init_values: the task built, or the error.
EvalTask(metrics, metric_names) ==
    LET names == IF Truthy(metric_names) THEN metric_names.names
                 ELSE default_names(metrics)
    IN  IF Len(metrics) # Len(names)
        THEN [raised |-> "ValueError", metrics |-> <<>>, metric_names |-> <<>>]
        ELSE [raised |-> "", metrics |-> metrics, metric_names |-> names]

InitEvalTask ==
    /\ fs = [p \in Paths |-> NoFile]
    /\ loop = [h \in Hosts |-> NoLoop]
    /\ ctl = [h \in Hosts |-> IdleCtl]
    /\ obs = [h \in Hosts |-> NoObs]
    /\ installed = NoSnap
    /\ pure \in {[fn |-> "EvalTask",
                  args |-> [metrics |-> metrics, metric_names |-> metric_names],
                  done |-> FALSE,
                  result |-> [raised |-> "", metrics |-> <<>>, metric_names |-> <<>>]] :
                     metrics \in SeqsUpTo({"accuracy", "loss"}, MaxMetrics),
                     metric_names \in {NoNames} \cup
                         {[given |-> TRUE, names |-> names] :
                              names \in SeqsUpTo({"a", "b"}, MaxMetrics)}}

ConstructEvalTask ==
    /\ pure.fn = "EvalTask"
    /\ ~pure.done
    /\ pure' = [pure EXCEPT !.done = TRUE,
                            !.result = EvalTask(pure.args.metrics, pure.args.metric_names)]
    /\ UNCHANGED <<fs, loop, ctl, obs, installed>>

SpecEvalTask == InitEvalTask /\ [][ConstructEvalTask]_vars

-----------------------------------------------------------------------------
(* Properties.                                                              *)

\* The checkpoint file of the output directory, and the temp file beside it.
CkptPath == join("out", CkptName)
TmpPath == <<"out", "model.pkl.gz._tmp_">>

\* Host h is back from the call named call, and the call raised nothing.
Returned(h, call) ==
    obs[h].call = call /\ ctl[h].pc = "idle" /\ ctl[h].raised = ""

\* The path the load_checkpoint call that host h is in looks at holds no
\* file (or there is no directory to look in).
LoadPathAbsent(h) ==
    LET dir == IF ctl[h].directory = None THEN loop[h].output_dir
               ELSE ctl[h].directory
        name == IF ctl[h].filename = None THEN CkptName ELSE ctl[h].filename
    IN  dir = None \/ ~fs[<<dir, name>>].exists

\* Host h is in a load_checkpoint call that looks at the checkpoint file
\* save_checkpoint writes.
LoadsCkptPath(h) ==
    /\ ctl[h].filename = None
    /\ \/ ctl[h].directory = "out"
       \/ ctl[h].directory = None /\ loop[h].output_dir = "out"

\* C1: a run(n_steps) call that returns normally leaves step equal to the
\* step before the call plus n_steps (unchanged for n_steps = 0), for the
\* first and for every later run call of a Loop.
C1_RunAdvancesStepByN ==
    \A h \in Hosts :
        Returned(h, "run") => loop[h].step = obs[h].step_before + obs[h].n_steps

\* C1 witness: a run of two steps has returned on a Loop that had run
\* before (no file exists, so its earlier steps were not loaded).
C1_Witness ==
    /\ Returned(0, "run")
    /\ obs[0].n_steps = 2
    /\ obs[0].step_before > 0
    /\ \A p \in Paths : ~fs[p].exists

\* C2: the checkpoint path never holds a partial file, and its content
\* changes only when the rename of a save completes, to the complete pickle
\* of that save's checkpoint; a crash at any other point leaves it as it was.
C2_CheckpointPathPreviousOrNewest ==
    [][/\ fs'[CkptPath].exists => Complete(fs'[CkptPath].data)
       /\ fs'[CkptPath] # fs[CkptPath] =>
             \E h \in Hosts :
                 /\ ctl[h].pc = "pickle_rename"
                 /\ ctl'[h].pc = ctl[h].ret
                 /\ fs'[CkptPath] = [exists |-> TRUE, data |-> pickle_dump(ctl[h].d)]]_vars

\* C2 witness: the process died inside a save; the temp file is partial
\* and the previous checkpoint is on disk.
C2_Witness ==
    /\ loop[0].status = "none"
    /\ fs[TmpPath].exists
    /\ ~Complete(fs[TmpPath].data)
    /\ fs[CkptPath].exists
    /\ pickle_load(fs[CkptPath].data).step = installed.step

\* C4: a load_checkpoint of the file written by save_checkpoint sets step
\* and every task's slots, in task order, to the values the Loop had when
\* that save_checkpoint was called, whatever steps were run in between.
C4_CheckpointRoundTrip ==
    [][\A h \in Hosts :
          (/\ ctl[h].pc = "load"
           /\ LoadsCkptPath(h)
           /\ ~LoadPathAbsent(h)
           /\ ctl'[h].pc = "idle"
           /\ loop'[h].status = "ready")
          => /\ ctl'[h].raised = ""
             /\ loop'[h].step = installed.step
             /\ SlotsOf(loop'[h]) = installed.slots]_vars

\* C4 witness: a two-task Loop went on after a save and then loaded the
\* checkpoint, which took its step back to the saved one.
C4_Witness ==
    /\ Returned(0, "load_checkpoint")
    /\ obs[0].found
    /\ Len(loop[0].tasks) = 2
    /\ obs[0].step_before > loop[0].step
    /\ loop[0].step = installed.step
    /\ loop[0].step >= 2

\* C5: a load_checkpoint whose path holds no file, or that has no
\* directory to look in, raises nothing and changes neither the Loop
\* (step, slots, weights) nor any file.
C5_LoadAbsentIsNoOp ==
    [][\A h \in Hosts :
          (/\ ctl[h].pc = "load"
           /\ LoadPathAbsent(h)
           /\ ctl'[h].pc = "idle"
           /\ loop'[h].status = "ready")
          => /\ ctl'[h].raised = ""
             /\ loop'[h] = loop[h]
             /\ fs' = fs]_vars

\* C5 witness: a Loop that has trained came back from a load_checkpoint
\* that found no file.
C5_Witness ==
    /\ Returned(0, "load_checkpoint")
    /\ ~obs[0].found
    /\ loop[0].step > 0
    /\ loop[0].weights > 0

\* C6: a Loop constructed over an output directory holding a checkpoint
\* has the saved step and the saved slots; the run that follows evaluates
\* task_at, checkpoint_at and eval_at at the steps s+1 .. s+n and returns
\* with step = s + n.
C6_ResumeFromCheckpoint ==
    \A h \in Hosts :
        /\ (/\ obs[h].call = "init"
            /\ loop[h].status = "ready"
            /\ loop[h].output_dir # None
            /\ fs[<<loop[h].output_dir, CkptName>>].exists)
           => /\ loop[h].step = installed.step
              /\ SlotsOf(loop[h]) = installed.slots
              /\ obs[h].resumed_at = installed.step
        /\ (obs[h].call = "run" /\ obs[h].resumed_at >= 0 /\ ctl[h].raised = "")
           => LET s == obs[h].resumed_at
                  n == obs[h].n_steps
              IN  /\ obs[h].step_before = s
                  /\ obs[h].task_at_steps = (s + 1) .. loop[h].step
                  /\ loop[h].step <= s + n
                  /\ ctl[h].pc = "idle" =>
                        /\ loop[h].step = s + n
                        /\ obs[h].task_at_steps = (s + 1) .. (s + n)
                        /\ obs[h].checkpoint_at_steps = (s + 1) .. (s + n)
                        /\ obs[h].eval_at_steps = (s + 1) .. (s + n)

\* C6 witness: a Loop resumed from a checkpoint of a step s >= 1 and its
\* first run, of two steps, has returned.
C6_Witness ==
    /\ Returned(0, "run")
    /\ obs[0].resumed_at >= 1
    /\ obs[0].n_steps = 2
    /\ loop[0].step = obs[0].resumed_at + 2

\* C9: the constructor fails, leaving no usable Loop, for an empty task
\* list and for two or more tasks without task_at; with one task and no
\* task_at it succeeds, and the task index of such a Loop is 0 at every step.
C9_ConstructorTaskChecks ==
    \A h \in Hosts :
        /\ (obs[h].call = "init" /\ obs[h].args.tasks = 0)
           => loop[h].status = "failed" /\ ctl[h].raised # ""
        /\ (obs[h].call = "init" /\ obs[h].args.tasks >= 2 /\ obs[h].args.task_at = None)
           => loop[h].status = "failed" /\ ctl[h].raised # ""
        /\ (obs[h].call = "init" /\ obs[h].args.tasks = 1 /\ obs[h].args.task_at = None)
           => loop[h].status = "ready" /\ ctl[h].raised = ""
        /\ (loop[h].status = "ready" /\ obs[h].args.task_at = None)
           => Len(loop[h].tasks) = 1 /\ ctl[h].task_index = 0

\* C9 witness: a construction with two tasks and no task_at has failed.
C9_Witness ==
    /\ obs[0].call = "init"
    /\ obs[0].args.tasks = 2
    /\ obs[0].args.task_at = None
    /\ loop[0].status = "failed"
    /\ ctl[0].raised = "AssertionError"

\* C3: a reader that loads the checkpoint path while the hosts of a run
\* save to it finds no file or a complete one, in every interleaving.
C3_ReaderSeesCompleteFile ==
    \A h \in Hosts :
        (ctl[h].pc = "load" /\ LoadsCkptPath(h) /\ fs[CkptPath].exists)
        => Complete(fs[CkptPath].data)

\* The argument and the result of the predicate applied on its own.
AtPeriod == pure.args.period
AtStepN == pure.args.step_n

C8_ScheduleOfRun250 ==
    \A h \in Hosts :
        (/\ obs[h].call = "run"
         /\ obs[h].step_before = 0
         /\ obs[h].n_steps = 250
         /\ Len(loop[h].tasks) = 1
         /\ loop[h].tasks[1].n_steps_per_checkpoint = 100
         /\ obs[h].args.checkpoint_at = none_fn
         /\ obs[h].args.eval_at = none_fn
         /\ obs[h].args.eval_tasks.given)
        => /\ obs[h].ckpt_steps \subseteq {1, 100, 200}
           /\ obs[h].eval_steps \subseteq {1, 100, 200}
           /\ ctl[h].pc = "idle" =>
                 /\ ctl[h].raised = ""
                 /\ loop[h].step = 250
                 /\ obs[h].ckpt_steps = {1, 100, 200}
                 /\ obs[h].eval_steps = {1, 100, 200}

\* C8 witness: run(250) has returned on a Loop with an output directory
\* whose last checkpoint is the one of step 200.
C8_Witness ==
    /\ Returned(0, "run")
    /\ obs[0].n_steps = 250
    /\ loop[0].step = 250
    /\ 200 \in obs[0].ckpt_steps
    /\ 200 \in obs[0].eval_steps
    /\ fs[CkptPath].exists
    /\ installed.step = 200

\* C10: constructing an EvalTask fails whenever the number of metrics
\* differs from the number of supplied metric names, a constructed EvalTask
\* has as many names as metrics, and without names the metrics' own names
\* are taken and the construction succeeds.
C10_MetricNameCountChecked ==
    (pure.fn = "EvalTask" /\ pure.done)
    => LET metrics == pure.args.metrics
           supplied == pure.args.metric_names
       IN  /\ (supplied.given /\ Len(supplied.names) # Len(metrics))
              => pure.result.raised # ""
           /\ pure.result.raised = ""
              => Len(pure.result.metrics) = Len(pure.result.metric_names)
           /\ ~supplied.given
              => /\ pure.result.raised = ""
                 /\ pure.result.metric_names = metrics

\* The path that the load_checkpoint call host h is in looks at.
LoadPath(h) ==
    <<IF ctl[h].directory = None THEN loop[h].output_dir ELSE ctl[h].directory,
      IF ctl[h].filename = None THEN CkptName ELSE ctl[h].filename>>

\* C11 as stated: over every sequence of run, run_evals, save_checkpoint
\* and load_checkpoint calls on one Loop, step never decreases.
C11_StepNeverDecreases ==
    [][\A h \in Hosts :
          (loop[h].status = "ready" /\ loop'[h].status = "ready")
          => loop'[h].step >= loop[h].step]_vars

\* C11 amended: on one Loop, step decreases only in a load_checkpoint that
\* finds a file, which sets step to the step stored in that file; run,
\* run_evals, save_checkpoint and a load_checkpoint that finds no file never
\* decrease it.
C11_StepDecreasesOnlyByLoad ==
    [][\A h \in Hosts :
          (/\ loop[h].status = "ready"
           /\ loop'[h].status = "ready"
           /\ loop'[h].step < loop[h].step)
          => /\ ctl[h].pc = "load"
             /\ ~LoadPathAbsent(h)
             /\ loop'[h].step = pickle_load(fs[LoadPath(h)].data).step]_vars

\* C11 witness: a load_checkpoint found a checkpoint saved at step 1 and
\* took the Loop back to it from a later step.
C11_Witness ==
    /\ Returned(0, "load_checkpoint")
    /\ obs[0].found
    /\ loop[0].step = 1
    /\ obs[0].step_before = 3

\* C12 as stated: at every step of every run the task index that selects
\* the task, its trainer and its train summary writer lies in
\* [0, num_tasks), whatever task_at the caller supplied.
C12_TaskIndexInRange ==
    \A h \in Hosts :
        (obs[h].call = "run" /\ ctl[h].pc \in {"ckpt", "eval"})
        => (0 <= ctl[h].task_index /\ ctl[h].task_index < Len(loop[h].tasks))

\* The source of the task that the next step of host h trains on has run out.
ActiveSourceExhausted(h) ==
    LET n == Len(loop[h].tasks)
        task_index == CallTaskAt(loop[h].task_at, loop[h].step + 1, n)
    IN  /\ in_range(task_index, n)
        /\ ~loop[h].tasks[list_position(task_index, n)].labeled_data.endless
        /\ loop[h].tasks[list_position(task_index, n)].labeled_data.left = 0

\* C20: a run(n) call that comes back without an error has done all n
\* steps; a step whose batch source is exhausted, or whose step function
\* fails, raises; from the raise on nothing is trained, saved or evaluated
\* (no checkpoint_at or eval_at call, no file written, no later step) and
\* the same error reaches the caller of run.
C20_RunCompletesOrPropagates ==
    [][\A h \in Hosts :
          /\ (obs'[h].call = "run" /\ ctl'[h].pc = "idle" /\ ctl'[h].raised = "")
             => loop'[h].step = obs'[h].step_before + obs'[h].n_steps
          /\ (ctl[h].pc = "loop" /\ ctl[h].n_left > 0 /\ ActiveSourceExhausted(h)
                 /\ ctl'[h] # ctl[h])
             => ctl'[h].pc = "unwind" /\ ctl'[h].raised = "StopIteration"
          /\ (ctl[h].pc = "loop" /\ ctl'[h].pc = "unwind")
             => /\ ctl'[h].raised \in {"StopIteration", "IndexError"}
                /\ loop'[h].weights = loop[h].weights
                /\ SlotsOf(loop'[h]) = SlotsOf(loop[h])
                /\ loop'[h].step \notin obs'[h].checkpoint_at_steps \cup obs'[h].eval_at_steps
                /\ fs' = fs
          /\ ctl[h].pc = "unwind"
             => /\ ctl'[h].pc = "idle"
                /\ ctl'[h].raised = ctl[h].raised
                /\ ctl'[h].raised # ""
                /\ loop'[h] = loop[h]
                /\ fs' = fs
                /\ obs'[h].task_at_steps = obs[h].task_at_steps
                /\ obs'[h].checkpoint_at_steps = obs[h].checkpoint_at_steps
                /\ obs'[h].eval_at_steps = obs[h].eval_at_steps
                /\ obs'[h].ckpt_steps = obs[h].ckpt_steps
                /\ obs'[h].eval_steps = obs[h].eval_steps]_vars

\* C20 witness: a run(2) came back with StopIteration from its first
\* step, after an earlier step of the Loop had been saved and evaluated;
\* the failed step was neither saved nor evaluated and no second step ran.
C20_Witness ==
    /\ obs[0].call = "run"
    /\ ctl[0].pc = "idle"
    /\ ctl[0].raised = "StopIteration"
    /\ obs[0].n_steps = 2
    /\ obs[0].step_before = 1
    /\ loop[0].step = 2
    /\ obs[0].task_at_steps = {2}
    /\ obs[0].checkpoint_at_steps = {}
    /\ obs[0].eval_at_steps = {}
    /\ fs[CkptPath].exists
    /\ pickle_load(fs[CkptPath].data).step = 1

\* C15: with an output directory, run opens one train and one eval summary
\* writer per task before its first step, they stay open while the call
\* is in progress, and when the call is over, normally or with an error
\* from a step, a checkpoint or an eval, each has been closed exactly once.
C15_WritersClosedOnEveryExit ==
    \A h \in Hosts :
        (obs[h].call = "run" /\ loop[h].status = "ready" /\ loop[h].output_dir # None)
        => /\ Len(obs[h].writers) = 2 * Len(loop[h].tasks)
           /\ ctl[h].pc # "idle" =>
                 \A i \in 1 .. Len(obs[h].writers) :
                     obs[h].writers[i].open /\ obs[h].writers[i].closes = 0
           /\ ctl[h].pc = "idle" =>
                 \A i \in 1 .. Len(obs[h].writers) :
                     ~obs[h].writers[i].open /\ obs[h].writers[i].closes = 1

\* C15 witness: a run over two tasks came back with the error of a failed
\* checkpoint write, and its four writers are closed.
C15_Witness ==
    /\ obs[0].call = "run"
    /\ ctl[0].pc = "idle"
    /\ ctl[0].raised = "OSError"
    /\ Len(obs[0].writers) = 4
    /\ \A i \in 1 .. 4 : ~obs[0].writers[i].open /\ obs[0].writers[i].closes = 1

\* C13: in every run_evals, a task whose eval task is None gives no batch,
\* draws no PRNG key and gets no log or summary entry, and it is never the
\* cause of an error (an error means a present eval task ran out of
\* batches); when run_evals returns, every present eval task has been
\* evaluated over its n_eval_batches batches and has its entries logged.
C13_AbsentEvalTaskSkipped ==
    \A h \in Hosts :
        LET e == obs[h].evals
            n == Len(e.eval_tasks)
        IN  /\ \A i \in 1 .. n :
                   /\ ~e.eval_tasks[i].present
                      => /\ e.per_task[i].pulled = 0
                         /\ e.per_task[i].rng = 0
                         /\ \A k \in 1 .. Len(e.log) : e.log[k].task # i - 1
                   /\ (e.eval_tasks[i].present /\ e.raised = "")
                      => /\ e.per_task[i].pulled = e.eval_tasks[i].n_eval_batches
                         /\ e.per_task[i].rng = e.eval_tasks[i].n_eval_batches
                         /\ \E k \in 1 .. Len(e.log) : e.log[k].task = i - 1
            /\ e.raised # ""
               => \E i \in 1 .. n :
                      /\ e.eval_tasks[i].present
                      /\ e.per_task[i].pulled < e.eval_tasks[i].n_eval_batches

\* C13 witness: a run with an output directory evaluated a Loop whose
\* first task has no eval task and whose second has one: only the second
\* task has entries, written to the log and the summary, and nothing raised.
C13_Witness ==
    LET e == obs[0].evals
    IN  /\ obs[0].call = "run"
        /\ Len(e.eval_tasks) = 2
        /\ ~e.eval_tasks[1].present
        /\ e.eval_tasks[2].present
        /\ e.eval_tasks[2].n_eval_batches = 2
        /\ e.raised = ""
        /\ e.per_task = <<[pulled |-> 0, rng |-> 0], [pulled |-> 2, rng |-> 2]>>
        /\ Len(e.log) = 2
        /\ \A k \in 1 .. 2 : e.log[k].task = 1 /\ e.log[k].summary

\* Host h does a run_evals in this step: called on its own, or by run
\* at a step where eval_at holds.
EvalsRun(h) ==
    \/ ctl[h].pc = "idle" /\ obs'[h].call = "run_evals" /\ obs'[h] # obs[h]
    \/ /\ ctl[h].pc = "eval"
       /\ ctl'[h].pc # "eval"
       /\ CallAt(loop[h].eval_at, loop[h].step)

\* The entries of the eval log for the task of index task_index, in order.
TaskLog(log, task_index) ==
    LET of_task(entry) == entry.task = task_index
    IN  SelectSeq(log, of_task)

\* C14 as stated: a run_evals that gets through pulls exactly
\* n_eval_batches batches from the source of every present eval task and
\* logs for it one entry per metric name, in the order of the names, whose
\* value is the arithmetic mean of that metric over the batches pulled;
\* when the batches all give the vector v, the values logged are v.
C14_LogsMeanOfEveryMetric ==
    [][\A h \in Hosts :
          (EvalsRun(h) /\ obs'[h].evals.raised = "")
          => \A i \in 1 .. Len(loop[h].eval_tasks) :
                LET t == loop[h].eval_tasks[i]
                    n == t.n_eval_batches
                    batch(k) == t.data[((t.pos + k - 2) % Len(t.data)) + 1]
                    entries == TaskLog(obs'[h].evals.log, i - 1)
                    sum(m) == LET s[k \in 0 .. n] ==
                                      IF k = 0 THEN 0 ELSE s[k - 1] + batch(k)[m]
                              IN  s[n]
                IN  t.present
                    => /\ obs'[h].evals.per_task[i].pulled = n
                       /\ loop'[h].eval_tasks[i] = eval_task_after(t, n)
                       /\ Len(entries) = Len(t.metric_names)
                       /\ \A m \in 1 .. Len(t.metric_names) :
                              /\ entries[m].name = t.metric_names[m]
                              /\ entries[m].value.num = sum(m)
                              /\ entries[m].value.den = n
                              /\ (\A k \in 1 .. n : batch(k) = batch(1))
                                 => entries[m].value.num = batch(1)[m] * entries[m].value.den]_vars

\* C18 as stated: over the life of a Loop with an output directory the
\* config file is written exactly once, at step 1, and only on the chief
\* host: never on another host, never twice, and once the Loop has run
\* through step 1 it has been written.
C18_ConfigWrittenOnceAtStep1 ==
    \A h \in Hosts :
        (loop[h].status = "ready" /\ loop[h].output_dir # None)
        => /\ ~loop[h].is_chief => obs[h].gin_writes = 0
           /\ obs[h].gin_writes <= 1
           /\ obs[h].gin_steps \subseteq {1}
           /\ (/\ loop[h].is_chief
               /\ Returned(h, "run")
               /\ obs[h].step_before = 0
               /\ obs[h].n_steps >= 1)
              => /\ obs[h].gin_writes = 1
                 /\ fs[join(loop[h].output_dir, ConfigName)].exists

-----------------------------------------------------------------------------
(* C17: the parameter synchronizer.                                         *)

SameDone == pure.fn = "_make_weights_and_state_same_across_hosts" /\ pure.done

\* Every replica on every host holds the value v.
AllReplicasHold(v) ==
    \A h \in 1 .. Len(pure.args.host_values) : pure.args.host_values[h] = v

\* The number of devices of all the hosts.
RECURSIVE DevicesUpTo(_)
DevicesUpTo(h) == IF h = 0 THEN 0 ELSE DevicesUpTo(h - 1) + pure.args.n_devices[h]

TotalDevices == DevicesUpTo(Len(pure.args.n_devices))

-----------------------------------------------------------------------------
(* C16: the cross-host synchronization of the initial weights.              *)

\* Host h's Loop was built by a program that has to synchronize.
MustSync(h) == obs[h].args.random_seed = None /\ loop[h].n_hosts > 1

\* C16: a Loop's constructor invokes the cross-host synchronization exactly
\* once if no seed was given and more than one host participates, and never
\* otherwise; the invocation comes before the constructor's checkpoint load;
\* no call on a built Loop (run, run_evals, save_checkpoint,
\* load_checkpoint) invokes it; and a host that has entered the collective
\* always leaves it, since every host of the computation enters it too.
C16_SyncOnceInConstruction ==
    /\ [](\A h \in {0, 1} :
             /\ obs[h].syncs <= 1
             /\ loop[h].status = "ready" => (obs[h].syncs = 1 <=> MustSync(h))
             /\ ctl[h].pc \in {"sync", "synced"} =>
                    /\ obs[h].call = "init"
                    /\ obs[h].syncs = 1
                    /\ ~obs[h].found
                    /\ loop[h].step = 0)
    /\ [][\A h \in {0, 1} :
             /\ obs'[h].syncs > obs[h].syncs =>
                    loop[h].status = "none" /\ ctl'[h].pc = "sync"
             /\ (loop[h].status = "ready" /\ loop'[h].status = "ready") =>
                    obs'[h].syncs = obs[h].syncs
             /\ (loop[h].status = "init" /\ loop'[h].status \in {"ready", "failed"}) =>
                    ctl[h].pc = "synced"]_vars
    /\ \A h \in {0, 1} : (ctl[h].pc = "sync") ~> (loop[h].status # "init")

\* Both hosts have built their Loops without a seed over an output
\* directory that holds a checkpoint: each has synchronized once and then
\* loaded the checkpoint, and one has since run a step.
C16_Witness ==
    /\ \A h \in {0, 1} :
          /\ loop[h].status = "ready"
          /\ MustSync(h)
          /\ obs[h].syncs = 1
          /\ loop[h].step > 0
    /\ obs[0].call = "init"
    /\ obs[0].found
    /\ obs[1].call = "run"
    /\ ctl[1].pc = "idle"

-----------------------------------------------------------------------------
(* C19: TrainTask.learning_rate.                                            *)

\* C19: learning_rate(step) is lr_schedule(step) when the task has a
\* schedule; otherwise it is, at every step, the learning rate the optimizer
\* was configured with when the task was constructed, whatever the
\* optimizer's live learning rate has become since.
C19_LearningRateFromScheduleOrInit ==
    (pure.fn = "TrainTask.learning_rate" /\ pure.done) =>
        IF pure.args.task.lr_schedule # None
        THEN pure.result = CallSchedule(pure.args.task.lr_schedule, pure.args.step)
        ELSE pure.result = pure.args.constructed_with

\* A task without a schedule was asked for its learning rate at a later step
\* while its optimizer's live learning rate was another one than at
\* construction.
C19_Witness ==
    /\ pure.fn = "TrainTask.learning_rate"
    /\ pure.done
    /\ pure.args.task.lr_schedule = None
    /\ pure.args.step > 0
    /\ pure.args.task.optimizer.opt_params.learning_rate # pure.args.constructed_with
    /\ pure.result = pure.args.constructed_with

-----------------------------------------------------------------------------
(* C21: the PRNG key stream.                                                *)

-----------------------------------------------------------------------------
(* C25: the batch cursor of a TrainTask.                                    *)

\* C25: constructing a TrainTask consumes exactly one element of its source,
\* the sample batch; each training step on the task consumes exactly one
\* more, so after k steps k + 1 elements are consumed and the i-th step was
\* fed element i + 1; the first element is never fed to a step; the cursor
\* never goes back.
C25_BatchCursorAccounting ==
    /\ [](pure.fn = "TrainTask.next_batch" =>
            \A i \in 1 .. MaxTasks :
                LET task == pure.args[i]
                IN  task.constructed =>
                        /\ task.sample_batch = 1
                        /\ task.labeled_data.consumed = Len(task.fed) + 1
                        /\ \A k \in 1 .. Len(task.fed) : task.fed[k] = k + 1)
    /\ [][\A i \in 1 .. MaxTasks :
             /\ pure'.args[i].labeled_data.consumed >= pure.args[i].labeled_data.consumed
             /\ pure'.args[i].labeled_data.consumed <= pure.args[i].labeled_data.consumed + 1
             /\ (pure.args[i].constructed /\ pure'.args[i] # pure.args[i]) =>
                    \/ Len(pure'.args[i].fed) = Len(pure.args[i].fed) + 1
                    \/ pure'.args[i].raised = "StopIteration"]_vars

\* A task has been fed two batches, the second and third element of its
\* source, while another task has not run a step yet.
C25_Witness ==
    /\ pure.fn = "TrainTask.next_batch"
    /\ pure.args[1].constructed
    /\ pure.args[1].fed = <<2, 3>>
    /\ pure.args[1].labeled_data.consumed = 3
    /\ pure.args[2].constructed
    /\ pure.args[2].fed = <<>>

-----------------------------------------------------------------------------
(* C22: the order of the work inside one step of run.                       *)

\* Host h is inside run, at the eval test of a step whose checkpoint was due.
AtEvalAfterCheckpoint(h) ==
    /\ ctl[h].pc = "eval"
    /\ loop[h].output_dir = "out"
    /\ loop[h].step \in obs[h].ckpt_steps

\* C22: in one step of run the step counter is incremented, task_at(step) is
\* resolved and the training step runs; then the checkpoint is saved if
\* checkpoint_at(step); only after that, if eval_at(step), the training
\* metrics are flushed and the evals run.  At the eval test of a step whose
\* checkpoint was due, the checkpoint file is complete and records that step.
C22_OrderWithinStep ==
    /\ [](\A h \in Hosts :
             AtEvalAfterCheckpoint(h) =>
                 /\ fs[CkptPath].exists
                 /\ Complete(fs[CkptPath].data)
                 /\ pickle_load(fs[CkptPath].data).step = loop[h].step)
    /\ [][\A h \in Hosts :
             loop'[h].status = "ready" =>
                 /\ (ctl[h].pc = "loop" /\ ctl'[h].pc # "loop") =>
                        \/ ctl'[h].pc = "idle"
                        \/ /\ loop'[h].step = loop[h].step + 1
                           /\ ctl'[h].task_index =
                                  CallTaskAt(loop[h].task_at, loop'[h].step, Len(loop[h].tasks))
                           /\ ctl'[h].pc = "ckpt"
                           /\ loop'[h].weights = loop[h].weights + 1
                           /\ obs'[h].train_log = obs[h].train_log
                           /\ obs'[h].evals = obs[h].evals
                 /\ ctl[h].pc = "ckpt" =>
                        /\ loop'[h] = loop[h]
                        /\ obs'[h].train_log = obs[h].train_log
                        /\ ctl'[h].pc = IF CallAt(loop[h].checkpoint_at, loop[h].step)
                                           /\ loop[h].output_dir # None
                                        THEN "pickle_open" ELSE "eval"
                        /\ (ctl'[h].pc = "pickle_open" =>
                                ctl'[h].d.step = loop[h].step /\ ctl'[h].ret = "eval")
                 /\ Len(obs'[h].train_log) > Len(obs[h].train_log) =>
                        /\ ctl[h].pc = "eval"
                        /\ CallAt(loop[h].eval_at, loop[h].step)
                        /\ obs'[h].train_log[Len(obs'[h].train_log)].step = loop[h].step
                        /\ obs'[h].evals.per_task # <<>>
                 /\ (ctl[h].pc = "eval" /\ CallAt(loop[h].eval_at, loop[h].step)) =>
                        Len(obs'[h].train_log) = Len(obs[h].train_log) + 1]_vars

\* A run has saved the checkpoint of step 2 and then flushed the training
\* metrics and run the evals of step 2.
C22_Witness ==
    /\ obs[0].call = "run"
    /\ ctl[0].pc = "loop"
    /\ loop[0].step = 2
    /\ 2 \in obs[0].ckpt_steps
    /\ 2 \in obs[0].eval_steps
    /\ obs[0].train_log # <<>>
    /\ obs[0].train_log[Len(obs[0].train_log)].step = 2
    /\ fs[CkptPath].exists
    /\ Complete(fs[CkptPath].data)
    /\ pickle_load(fs[CkptPath].data).step = 2

-----------------------------------------------------------------------------
(* C23: what the flush of the training metrics covers.                      *)

\* The steps s up to the current one with no eval point in s .. step - 1,
\* from the step after `from` on.
StepsSinceLogPoint(h, from) ==
    {s \in (from + 1) .. loop'[h].step :
        \A e \in s .. (loop'[h].step - 1) : ~CallAt(loop[h].eval_at, e)}

\* The flush that host h does in this transition, if it does one.
Flushes(h) == Len(obs'[h].train_log) > Len(obs[h].train_log)

Flushed(h) == obs'[h].train_log[Len(obs'[h].train_log)]

\* C23 as stated: at every eval point, over any sequence of run calls, the
\* flushed loss is the sum over all training steps executed since the last
\* log point, divided by their number: no executed step is left out.
C23_FlushCoversStepsSinceLastLog ==
    [][\A h \in Hosts :
          Flushes(h) =>
              /\ {t.step : t \in {Flushed(h).total_loss[k] :
                                     k \in 1 .. Len(Flushed(h).total_loss)}}
                     = StepsSinceLogPoint(h, 0)
              /\ Flushed(h).n_steps = Cardinality(StepsSinceLogPoint(h, 0))]_vars

\* C23 amended: at every eval point the flushed loss is the sum over the
\* training steps that the current run call has executed since its last log
\* point, or since it began, divided by their number; the steps of an
\* earlier run call that ended before a log point are left out.
C23_FlushCoversStepsOfThisRun ==
    [][\A h \in Hosts :
          Flushes(h) =>
              /\ {t.step : t \in {Flushed(h).total_loss[k] :
                                     k \in 1 .. Len(Flushed(h).total_loss)}}
                     = StepsSinceLogPoint(h, obs[h].step_before)
              /\ Len(Flushed(h).total_loss) = Flushed(h).n_steps
              /\ Flushed(h).n_steps
                     = Cardinality(StepsSinceLogPoint(h, obs[h].step_before))]_vars

\* A second run call has flushed at an eval point the mean over its own
\* step only, although the step before, run by an earlier call, was never
\* flushed; every step so far has updated the weights.
C23_Witness ==
    /\ obs[0].call = "run"
    /\ obs[0].step_before = MaxPeriod
    /\ loop[0].step = MaxPeriod + 1
    /\ loop[0].eval_at.period = MaxPeriod + 1
    /\ Len(obs[0].train_log) = 1
    /\ obs[0].train_log[1].n_steps = 1
    /\ obs[0].train_log[1].step = MaxPeriod + 1
    /\ loop[0].weights = MaxPeriod + 1

-----------------------------------------------------------------------------
(* C28: the training metrics of a multi-task run.                           *)

\* The task that task_at gives for step s on host h.
TaskAtStep(h, s) == CallTaskAt(loop[h].task_at, s, Len(loop[h].tasks))

\* C28: the accumulators are shared by all tasks: the loss flushed at an eval
\* point has one term for every step since the accumulators were reset,
\* whichever task that step trained, and it is reported under the loss name
\* of the task that was active at the eval step and through the train
\* writer of that task's index.
C28_SharedAccumulators ==
    [][\A h \in Hosts :
          Flushes(h) =>
              LET e == Flushed(h)
                  since == StepsSinceLogPoint(h, obs[h].step_before)
              IN  /\ e.task_index = TaskAtStep(h, loop[h].step)
                  /\ e.loss_name = list_position(e.task_index, Len(loop[h].tasks))
                  /\ e.writer = IF loop[h].output_dir = None THEN 0
                                ELSE list_position(e.task_index, Len(loop[h].eval_tasks))
                  /\ Len(e.total_loss) = Cardinality(since)
                  /\ \A s \in since :
                        \E k \in 1 .. Len(e.total_loss) :
                            e.total_loss[k] = [step |-> s, task_index |-> TaskAtStep(h, s)]]_vars

\* A run over two tasks has flushed, under the name and through the train
\* writer of the second task, a loss with terms of both tasks.
C28_Witness ==
    /\ obs[0].call = "run"
    /\ loop[0].output_dir = "out"
    /\ Len(loop[0].tasks) = 2
    /\ Len(obs[0].train_log) = 1
    /\ obs[0].train_log[1].loss_name = 2
    /\ obs[0].train_log[1].writer = 2
    /\ obs[0].train_log[1].n_steps = 2
    /\ \E k, l \in 1 .. Len(obs[0].train_log[1].total_loss) :
          /\ obs[0].train_log[1].total_loss[k].task_index = 0
          /\ obs[0].train_log[1].total_loss[l].task_index = 1

-----------------------------------------------------------------------------
(* C24: the summary writers that run holds.                                 *)

\* The writers of subdir that the run in progress on host h holds.
WritersHeld(h, subdir) ==
    {i \in 1 .. Len(obs[h].writers) :
        obs[h].writers[i].subdir = subdir /\ obs[h].writers[i].open}

\* C24: whenever an output directory is set, the run in progress holds one
\* train writer and one eval writer for every training task index, so at an
\* eval point the train writer of the task index that task_at returned in
\* [0, num_tasks) exists and the lookup raises no IndexError.
C24_WritersForEveryTaskIndex ==
    \A h \in Hosts :
        (loop[h].status = "ready" /\ loop[h].output_dir # None) =>
            /\ ctl[h].pc \in {"loop", "ckpt", "eval"} =>
                  /\ Cardinality(WritersHeld(h, "train")) = Len(loop[h].tasks)
                  /\ Cardinality(WritersHeld(h, "eval")) = Len(loop[h].tasks)
            /\ (ctl[h].pc = "eval" /\ ctl[h].task_index \in 0 .. (Len(loop[h].tasks) - 1)) =>
                  in_range(ctl[h].task_index, writers_per_subdir(loop[h]))
            /\ (ctl[h].pc = "unwind" /\ ctl[h].task_index \in 0 .. (Len(loop[h].tasks) - 1)) =>
                  ctl[h].raised # "IndexError"

-----------------------------------------------------------------------------
(* C26: a Loop constructed with eval_tasks=None.                            *)

\* Host h holds a Loop that was constructed with eval_tasks=None.
WithoutEvalTasks(h) == loop[h].status = "ready" /\ ~obs[h].args.eval_tasks.given

\* The checkpoint_at the constructor keeps for the arguments args.
CheckpointAtOf(args) ==
    IF args.checkpoint_at.fn = "None" THEN at_step_1_and_every_nth_step(args.period)
    ELSE args.checkpoint_at

\* C26: a Loop constructed with eval_tasks=None has the never-true eval_at
\* whatever eval_at the caller gave; in its runs no eval is triggered, the
\* training metrics are never flushed, the config file is never written,
\* and the steps checkpointed are those on which checkpoint_at holds.
C26_NoEvalTasksNeverEval ==
    \A h \in Hosts :
        WithoutEvalTasks(h) =>
            /\ loop[h].eval_at = never_fn
            /\ \A s \in 0 .. MaxStep : ~CallAt(loop[h].eval_at, s)
            /\ obs[h].gin_writes = 0 /\ obs[h].gin_steps = {}
            /\ loop[h].output_dir # None =>
                  ~fs[join(loop[h].output_dir, ConfigName)].exists
            /\ obs[h].call = "run" =>
                  /\ obs[h].eval_steps = {}
                  /\ obs[h].train_log = <<>>
                  /\ obs[h].evals = NoEvals
                  /\ obs[h].ckpt_steps =
                        {s \in obs[h].checkpoint_at_steps :
                            CallAt(CheckpointAtOf(obs[h].args), s)}

\* A Loop built with eval_tasks=None and an eval_at of the caller that is
\* true at every step has run two steps: both were checkpointed, the
\* checkpoint file is there, and no eval has happened.
C26_Witness ==
    /\ WithoutEvalTasks(0)
    /\ obs[0].args.eval_at = at_step_1_and_every_nth_step(1)
    /\ loop[0].output_dir = "out"
    /\ obs[0].call = "run" /\ ctl[0].pc = "idle" /\ ctl[0].raised = ""
    /\ obs[0].eval_at_steps = {1, 2}
    /\ obs[0].ckpt_steps = {1, 2}
    /\ fs[join("out", CkptName)].exists
    /\ obs[0].train_log = <<>>

-----------------------------------------------------------------------------
(* C27: a training step that raises.                                        *)

\* The last step that the run on host h began has raised in _run_one_step:
\* task_at was called for it and the checkpoint test was not reached.
StepRaised(h) ==
    /\ obs[h].call = "run"
    /\ ctl[h].raised # ""
    /\ loop[h].step \in obs[h].task_at_steps
    /\ loop[h].step \notin obs[h].checkpoint_at_steps

\* The number of steps that the last run on host h began.
StepsBegun(h) == Cardinality(obs[h].task_at_steps)

\* C27: the step is incremented before the step's work: when the i-th step
\* of a run raises, the Loop is left at step_before + i with i - 1 parameter
\* updates applied, and a save_checkpoint called after that run records the
\* advanced step number with the weights of i - 1 updates.
C27_StepAdvancedBeforeWork ==
    [][\A h \in Hosts :
          /\ StepRaised(h)' =>
                /\ loop'[h].step = obs'[h].step_before + StepsBegun(h)'
                /\ loop'[h].weights = obs'[h].weights_before + StepsBegun(h)' - 1
          /\ (StepRaised(h) /\ ctl[h].pc = "idle" /\ ctl'[h].pc = "pickle_open") =>
                /\ ctl'[h].d.step = obs[h].step_before + StepsBegun(h)
                /\ ctl'[h].d.flat_weights = obs[h].weights_before + StepsBegun(h) - 1
                /\ obs'[h].snap.step = obs[h].step_before + StepsBegun(h)]_vars

\* The second step of run(2) has raised StopIteration after one update, and
\* the save_checkpoint called afterwards has written step 2 to the file.
C27_Witness ==
    /\ obs[0].call = "save_checkpoint"
    /\ ctl[0].pc = "idle"
    /\ obs[0].step_before = 0 /\ obs[0].n_steps = 2
    /\ obs[0].task_at_steps = {1, 2}
    /\ obs[0].checkpoint_at_steps = {1}
    /\ loop[0].step = 2 /\ loop[0].weights = 1
    /\ installed.valid /\ installed.step = 2
    /\ fs[join("out", CkptName)].exists

====
